---- MODULE Spec2Model ----
(***************************************************************************)
(* KDB-X MCP server (TypeScript): the connection cache of utils/kdbx.ts,   *)
(* the run-sql-query tool, the two search tools and the helpers they call. *)
(*                                                                         *)
(* Text is modelled as sequences of one-character strings, so that         *)
(* toUpperCase, trim, includes and startsWith are computed, not assumed.   *)
(* An async function is cut at its awaits: one action per synchronous      *)
(* stretch, with the settled value of the awaited promise kept in `out`.   *)
(***************************************************************************)
EXTENDS Integers, Sequences, FiniteSets, TLC

\* ------------------------------------------------------------------ bounds
\* KDBConnectionImpl objects constructed in one behaviour
MaxConns == 2
\* tool invocations in flight at once
NumInv == 1
\* run-sql-query invocations in flight at once in SpecCallers
NumCallers == 2

VARIABLES
  config,            \* KDBConfig, immutable after load: [retry, embeddingCsvPath]
  cachedConnection,  \* module variable of utils/kdbx.ts; 0 is null, else an object id
  connected,         \* connected[c]: the private field of KDBConnectionImpl object c
  nextConn,          \* number of KDBConnectionImpl objects constructed so far
  csvCache,          \* module variable of embeddings-helpers.ts: path -> the file content parsed
  inv,               \* inv[i]: the tool invocation in slot i
  lastAcquire,       \* what the last completed getKDBConnection call did (history)
  closed,            \* cleanupKDBConnection calls since the last getKDBConnection (history)
  server,            \* the KdbxMcpServer object and the process around it
  call               \* a getKDBConnection call followed attempt by attempt

vars == <<config, cachedConnection, connected, nextConn, csvCache, inv, lastAcquire, closed, server, call>>

Inv == 1..NumInv
Conns == 1..MaxConns

\* -------------------------------------------------------------------- text
Lower == <<"a","b","c","d","e","f","g","h","i","j","k","l","m","n","o","p","q","r","s","t","u","v","w","x","y","z">>
Upper == <<"A","B","C","D","E","F","G","H","I","J","K","L","M","N","O","P","Q","R","S","T","U","V","W","X","Y","Z">>

ToUpperChar(c) ==
  IF \E k \in 1..26 : Lower[k] = c
  THEN Upper[CHOOSE k \in 1..26 : Lower[k] = c]
  ELSE c

\* String.prototype.toUpperCase
toUpperCase(s) == [k \in 1..Len(s) |-> ToUpperChar(s[k])]

IsWhiteSpace(c) == c \in {" ", "\t", "\n"}

RECURSIVE trimStart(_)
trimStart(s) ==
  IF s # <<>> /\ IsWhiteSpace(Head(s)) THEN trimStart(Tail(s)) ELSE s

RECURSIVE trimEnd(_)
trimEnd(s) ==
  IF s # <<>> /\ IsWhiteSpace(s[Len(s)]) THEN trimEnd(SubSeq(s, 1, Len(s) - 1)) ELSE s

\* String.prototype.trim
trim(s) == trimEnd(trimStart(s))

\* String.prototype.includes
includes(s, t) == \E k \in 0..(Len(s) - Len(t)) : SubSeq(s, k + 1, k + Len(t)) = t

\* String.prototype.startsWith
startsWith(s, t) == Len(s) >= Len(t) /\ SubSeq(s, 1, Len(t)) = t

Digit == <<"0","1","2","3","4","5","6","7","8","9">>

\* String(n) for a non-negative integer
RECURSIVE NumberToString(_)
NumberToString(n) ==
  IF n < 10 THEN <<Digit[n + 1]>> ELSE NumberToString(n \div 10) \o <<Digit[(n % 10) + 1]>>

\* An Error object: its name and its message
Err(msg) == [name |-> <<"E","r","r","o","r">>, message |-> msg]
TypeErr(msg) == [name |-> <<"T","y","p","e","E","r","r","o","r">>, message |-> msg]
NoErr == [name |-> <<>>, message |-> <<>>]

\* String(e), Error.prototype.toString
ErrorToString(e) == IF e.message = <<>> THEN e.name ELSE e.name \o <<":"," ">> \o e.message

\* ------------------------------------------------------------ program text
MAX_ROWS_RETURNED == 1000

dangerousKeywords == <<<<"I","N","S","E","R","T">>, <<"D","R","O","P">>, <<"D","E","L","E","T","E">>, <<"T","R","U","N","C","A","T","E">>, <<"A","L","T","E","R">>, <<"C","R","E","A","T","E">>>>
SELECT == <<"S","E","L","E","C","T">>
SqlMarker == <<".","s",".","e">>

\* The q source handed to conn.query by run-sql-query (line 149), by
\* similarity search (index.ts line 86) and by hybrid search (index.ts line 147)
SqlLambda ==
  <<"{">> \o <<"r",":",".","s",".","e"," ","x",";"," ","BACKTICK","r","o","w","C","o","u","n","t","BACKTICK","d","a","t","a","!","(","c","o","u","n","t"," ","r",";",".","j",".","j"," ","y"," ","s","u","b","l","i","s","t"," ","r",")">> \o <<"}">>
SimLambda ==
  <<"{">> \o <<"[","a","r","g","s","]"," ",".","a","i",".","f","l","a","t",".","s","e","a","r","c","h","[","?","[","a","r","g","s","BACKTICK","t","a","b","l","e",";","(",")",";","(",")",";","a","r","g","s","BACKTICK","v","c","o","l","]",";","a","r","g","s","BACKTICK","q","v","e","c",";","a","r","g","s","BACKTICK","n",";","a","r","g","s","BACKTICK","m","e","t","r","i","c","]">>
    \o <<"}">>
HybridLambda ==
  <<"{">> \o <<"[","a","r","g","s","]"," ",".","a","i",".","h","y","b","r","i","d",".","r","r","f","[","(",".","a","i",".","f","l","a","t",".","s","e","a","r","c","h","[",".",".",".","]",";",".","a","i",".","b","m","2","5",".","s","e","a","r","c","h","[",".",".",".","]",")",";","6","0","]">>
    \o <<"}">>

\* config.k and config.metric (settings.ts, lines 62-63)
DefaultK == 5
DefaultMetric == <<"C","S">>

MsgDangerous(k) == <<"Q","u","e","r","y"," ","c","o","n","t","a","i","n","s"," ","d","a","n","g","e","r","o","u","s"," ","k","e","y","w","o","r","d",":"," ">> \o dangerousKeywords[k]
MsgNotConnected == <<"N","o","t"," ","c","o","n","n","e","c","t","e","d"," ","t","o"," ","K","D","B","-","X">>
MsgNotImplemented == <<"K","D","B","-","X"," ","c","o","n","n","e","c","t","i","o","n"," ","n","o","t"," ","i","m","p","l","e","m","e","n","t","e","d"," ","-"," ","r","e","q","u","i","r","e","s"," ","c","l","i","e","n","t"," ","l","i","b","r","a","r","y">>
MsgFailedToConnect == <<"F","a","i","l","e","d"," ","t","o"," ","c","o","n","n","e","c","t"," ","t","o"," ","K","D","B","-","X">>
MsgNoRows == <<"N","o"," ","r","o","w","s"," ","r","e","t","u","r","n","e","d">>
MsgShowing(total) ==
  <<"S","h","o","w","i","n","g"," ","f","i","r","s","t"," ">> \o NumberToString(MAX_ROWS_RETURNED) \o <<" ","o","f"," ">> \o NumberToString(total) \o <<" ","r","o","w","s">>
MsgSqlNotLoaded == <<"I","t"," ","l","o","o","k","s"," ","l","i","k","e"," ","t","h","e"," ","S","Q","L"," ","i","n","t","e","r","f","a","c","e"," ","i","s"," ","n","o","t"," ","l","o","a","d","e","d"," ","i","n"," ","t","h","e"," ","K","D","B","-","X"," ","d","a","t","a","b","a","s","e","."," ","P","l","e","a","s","e"," ","i","n","i","t","i","a","l","i","z","e"," ","i","t"," ","b","y"," ","r","u","n","n","i","n","g"," ","BACKTICK",".","s",".","i","n","i","t","[","]","BACKTICK"," ","i","n"," ","y","o","u","r"," ","K","D","B","-","X"," ","s","e","s","s","i","o","n",","," ","o","r"," ","c","o","n","t","a","c","t"," ","y","o","u","r"," ","s","y","s","t","e","m"," ","a","d","m","i","n","i","s","t","r","a","t","o","r",".">>

\* ------------------------------------------------------------- data shapes
\* The settled value of an awaited promise: nothing yet, a value or a rejection.
\* shape tells what the value is: a connection handle, an embedding, the
\* {rowCount, data} record of the SQL call, an array of rows, or null.
Undefined == -1

NoOut ==
  [kind |-> "none", err |-> NoErr, conn |-> 0, shape |-> "none",
   rowCount |-> Undefined, hasData |-> FALSE, data |-> <<>>]

Rejected(e) == [NoOut EXCEPT !.kind = "error", !.err = e]
ResolvedConn(c) == [NoOut EXCEPT !.kind = "value", !.shape = "conn", !.conn = c]
ResolvedEmbedding == [NoOut EXCEPT !.kind = "value", !.shape = "embedding"]

\* QueryResult and SearchResult: `keys` are the properties the object has.
BlankResult ==
  [status |-> "none", data |-> <<>>, message |-> <<>>, error_type |-> "",
   technical_details |-> <<>>, table |-> <<>>, recordsCount |-> 0, records |-> <<>>]

Result(r) ==
  [k \in DOMAIN BlankResult \cup {"keys"} |->
     IF k = "keys" THEN DOMAIN r
     ELSE IF k \in DOMAIN r THEN r[k] ELSE BlankResult[k]]

NoResult == Result([status |-> "none"])

\* What a function body did: returned a value or threw.
Returned(r) == [threw |-> FALSE, res |-> r, err |-> NoErr]
Threw(e) == [threw |-> TRUE, res |-> NoResult, err |-> e]

\* ------------------------------------------------- utils/kdbx.ts connection
\* KDBConnectionImpl.isConnected
isConnected(c) == connected[c]

\* KDBConnectionImpl.query: the rejection of the promise it returns
KDBConnectionImpl_query(c) ==
  IF ~connected[c]
  THEN Rejected(Err(MsgNotConnected))
  ELSE Rejected(Err(MsgNotImplemented))

\* getKDBConnection, line 52: the cached connection is returned as it is
CacheHit == cachedConnection # 0 /\ isConnected(cachedConnection)

\* getKDBConnection, the body of the try of one attempt: conn.connect() is
\* commented out, what is left is an assignment, a log line and the return.
AttemptBody(c, attempt) == [ok |-> TRUE, err |-> NoErr]

ConnectLoop_NoReturn(c, attempt, lastError) ==
  [ok |-> TRUE, attempts |-> config.retry + 1, err |-> NoErr]

\* getKDBConnection, the retry loop from attempt number `attempt` on;
\* lastError is the error of the attempt before (NoErr is null).
RECURSIVE ConnectLoop(_, _, _)
ConnectLoop(c, attempt, lastError) ==
  IF attempt <= config.retry + 1
  THEN LET a == AttemptBody(c, attempt) IN
       IF a.ok
       THEN [ok |-> TRUE, attempts |-> attempt, err |-> NoErr]
       ELSE ConnectLoop(c, attempt + 1, a.err)
  ELSE [ok |-> FALSE, attempts |-> attempt - 1,
        err |-> IF lastError = NoErr THEN Err(MsgFailedToConnect) ELSE lastError]

NewConnection_Reused == IF nextConn = 0 THEN 1 ELSE nextConn

\* The object id `new KDBConnectionImpl(config)` gets
NewConnection == nextConn + 1

\* getKDBConnection as a whole: what it returns and what it leaves behind.
\*   hit       the early return of line 55 was taken
\*   conn      the handle returned (0 when it throws)
\*   attempts  iterations of the retry loop
\*   cache     cachedConnection afterwards
getKDBConnection ==
  IF CacheHit
  THEN [ok |-> TRUE, hit |-> TRUE, conn |-> cachedConnection, created |-> 0,
        attempts |-> 0, cache |-> cachedConnection, err |-> NoErr]
  ELSE LET c == NewConnection
           loop == ConnectLoop(c, 1, NoErr)
       IN  [ok |-> loop.ok, hit |-> FALSE, conn |-> IF loop.ok THEN c ELSE 0,
            created |-> c, attempts |-> loop.attempts,
            cache |-> IF loop.ok THEN c ELSE cachedConnection, err |-> loop.err]

\* The promise getKDBConnection returns
AcquireOutcome(a) == IF a.ok THEN ResolvedConn(a.conn) ELSE Rejected(a.err)

\* A call of getKDBConnection needs room for the object it may construct.
CanAcquire == CacheHit \/ nextConn < MaxConns

NoAcquire ==
  [ok |-> FALSE, hit |-> FALSE, conn |-> 0, created |-> 0, attempts |-> 0,
   cacheBefore |-> 0, cacheAfter |-> 0, afterClose |-> FALSE, closedHandle |-> 0]

\* No cleanupKDBConnection call since the last getKDBConnection; else `handle`
\* is the handle the latest one closed (0: nothing was cached).
NotClosed == [called |-> FALSE, handle |-> 0]

\* The effect of one getKDBConnection call `a` on the module state
Acquire(a) ==
  /\ cachedConnection' = a.cache
  /\ nextConn' = IF a.created # 0 THEN a.created ELSE nextConn
  /\ lastAcquire' =
       [ok |-> a.ok, hit |-> a.hit, conn |-> a.conn,
        created |-> a.created, attempts |-> a.attempts,
        cacheBefore |-> cachedConnection, cacheAfter |-> a.cache,
        afterClose |-> closed.called, closedHandle |-> closed.handle]
  /\ closed' = NotClosed
  /\ UNCHANGED connected

cleanupKDBConnection_KeepCache ==
  /\ IF cachedConnection # 0
     THEN /\ connected' = [connected EXCEPT ![cachedConnection] = FALSE]
          /\ closed' = [called |-> TRUE, handle |-> cachedConnection]
     ELSE /\ closed' = [closed EXCEPT !.called = TRUE]
          /\ UNCHANGED connected
  /\ UNCHANGED <<config, server, call, cachedConnection, nextConn, csvCache, inv, lastAcquire>>

\* cleanupKDBConnection
cleanupKDBConnection ==
  /\ IF cachedConnection # 0
     THEN /\ connected' = [connected EXCEPT ![cachedConnection] = FALSE]
          /\ closed' = [called |-> TRUE, handle |-> cachedConnection]
          /\ cachedConnection' = 0
     ELSE /\ closed' = [closed EXCEPT !.called = TRUE]
          /\ UNCHANGED <<connected, cachedConnection>>
  /\ UNCHANGED <<config, server, call, nextConn, csvCache, inv, lastAcquire>>

\* -------------------------------------------- utils/embeddings-helpers.ts
\* An EmbeddingConfig; <<>> is null.
NoConfig ==
  [embeddingColumn |-> <<>>, embeddingProvider |-> <<>>, embeddingModel |-> <<>>,
   sparseEmbeddingColumn |-> <<>>, sparseIndexName |-> <<>>,
   sparseTokenizerProvider |-> <<>>, sparseTokenizerModel |-> <<>>]

CsvRow(t, ec, ep, em, sc, si, sp, sm) ==
  [table |-> t, embedding_column |-> ec, embedding_provider |-> ep, embedding_model |-> em,
   sparse_embedding_column |-> sc, sparse_index_name |-> si,
   sparse_tokenizer_provider |-> sp, sparse_tokenizer_model |-> sm]

\* The records csv-parse yields for the file at config.embeddingCsvPath
\* (an empty cell is cast to null): the environment of the model.
EmbeddingCsv ==
  << CsvRow(<<"d","o","c","s">>, <<"v","e","c">>, <<"o","p","e","n","a","i">>, <<"m","1">>, <<"s","v","e","c">>, <<"i","d","x">>, <<>>, <<>>),
     CsvRow(<<"n","e","w","s">>, <<"v","e","c">>, <<"o","p","e","n","a","i">>, <<"m","1">>, <<"s","v","e","c">>, <<"i","d","x">>, <<"s","e","n","t","e","n","c","e","_","t","r","a","n","s","f","o","r","m","e","r","s">>, <<"m","2">>),
     CsvRow(<<"p","l","a","i","n">>, <<"v","e","c">>, <<"s","e","n","t","e","n","c","e","_","t","r","a","n","s","f","o","r","m","e","r","s">>, <<"m","2">>, <<>>, <<>>, <<>>, <<>>),
     CsvRow(<<"b","a","r","e">>, <<>>, <<>>, <<>>, <<>>, <<>>, <<>>, <<>>),
     CsvRow(<<"n","o","m","o","d","e","l">>, <<"v","e","c">>, <<"o","p","e","n","a","i">>, <<>>, <<>>, <<>>, <<>>, <<>>),
     CsvRow(<<"o","d","d">>, <<"v","e","c">>, <<"a","c","m","e">>, <<"m","1">>, <<"s","v","e","c">>, <<"i","d","x">>, <<>>, <<>>),
     CsvRow(<<"d","u","p">>, <<"v","e","c">>, <<"o","p","e","n","a","i">>, <<"m","1">>, <<>>, <<>>, <<>>, <<>>),
     CsvRow(<<"d","u","p">>, <<"v","e","c">>, <<"o","p","e","n","a","i">>, <<"m","2">>, <<>>, <<>>, <<>>, <<>>),
     CsvRow(<<"m","i","x","p">>, <<"v","e","c">>, <<"o","p","e","n","a","i">>, <<"m","1">>, <<"s","v","e","c">>, <<"i","d","x">>, <<"s","e","n","t","e","n","c","e","_","t","r","a","n","s","f","o","r","m","e","r","s">>, <<>>),
     CsvRow(<<"m","i","x","m">>, <<"v","e","c">>, <<"o","p","e","n","a","i">>, <<"m","1">>, <<"s","v","e","c">>, <<"i","d","x">>, <<>>, <<"m","2">>) >>

\* The table names a caller passes; `nope` has no row.
Tables == {<<"d","o","c","s">>, <<"n","e","w","s">>, <<"p","l","a","i","n">>, <<"b","a","r","e">>, <<"n","o","m","o","d","e","l">>, <<"o","d","d">>, <<"d","u","p">>, <<"n","o","p","e">>}

\* What readFileSync throws when the file cannot be read
FsError == Err(<<"E","N","O","E","N","T",":"," ","n","o"," ","s","u","c","h"," ","f","i","l","e"," ","o","r"," ","d","i","r","e","c","t","o","r","y">>)

\* The contents a CSV file can have when it is read: the file as the model
\* uses it everywhere, and an edited one.
CsvContents == {"shipped", "edited"}

\* What csv-parse makes of a content
ParsedRows(content) ==
  IF content = "shipped" THEN EmbeddingCsv
  ELSE << CsvRow(<<"d","o","c","s">>, <<"e","m","b">>, <<"s","e","n","t","e","n","c","e","_","t","r","a","n","s","f","o","r","m","e","r","s">>, <<"m","2">>, <<>>, <<>>, <<>>, <<>>) >>

\* new Map(): no path cached
NoCsv == [p \in {} |-> "shipped"]

\* csvCache.set(csvPath, records)
CacheSet(cache, csvPath, content) ==
  [p \in DOMAIN cache \cup {csvPath} |-> IF p = csvPath THEN content ELSE cache[p]]

getCsvDataAt_Reread(csvPath, fileOk, content) ==
  IF fileOk
  THEN [threw |-> FALSE, rows |-> ParsedRows(content), read |-> TRUE,
        cache |-> CacheSet(csvCache, csvPath, content), err |-> NoErr]
  ELSE [threw |-> TRUE, rows |-> <<>>, read |-> TRUE, cache |-> csvCache,
        err |-> Err(<<"F","a","i","l","e","d"," ","t","o"," ","r","e","a","d"," ","e","m","b","e","d","d","i","n","g","s"," ","C","S","V",":"," ">> \o ErrorToString(FsError))]

\* getCsvData(csvPath): rows, or the error thrown; cache is csvCache
\* afterwards and read says whether readFileSync was called. fileOk:
\* readFileSync and parse succeed, if it comes to them; content: what the
\* file holds then.
getCsvDataAt(csvPath, fileOk, content) ==
  IF csvPath \in DOMAIN csvCache
  THEN [threw |-> FALSE, rows |-> ParsedRows(csvCache[csvPath]), read |-> FALSE,
        cache |-> csvCache, err |-> NoErr]
  ELSE IF fileOk
       THEN [threw |-> FALSE, rows |-> ParsedRows(content), read |-> TRUE,
             cache |-> CacheSet(csvCache, csvPath, content), err |-> NoErr]
       ELSE [threw |-> TRUE, rows |-> <<>>, read |-> TRUE, cache |-> csvCache,
             err |-> Err(<<"F","a","i","l","e","d"," ","t","o"," ","r","e","a","d"," ","e","m","b","e","d","d","i","n","g","s"," ","C","S","V",":"," ">> \o ErrorToString(FsError))]

\* getCsvData(config.embeddingCsvPath), the one call the program makes
getCsvData(fileOk) == getCsvDataAt(config.embeddingCsvPath, fileOk, "shipped")

MsgNoConfiguration(table) == <<"N","o"," ","c","o","n","f","i","g","u","r","a","t","i","o","n"," ","f","o","u","n","d"," ","f","o","r"," ","t","a","b","l","e","=","'">> \o table \o <<"'">>
MsgMultipleConfigurations(table) ==
  <<"M","u","l","t","i","p","l","e"," ","c","o","n","f","i","g","u","r","a","t","i","o","n","s"," ","f","o","u","n","d"," ","f","o","r"," ","t","a","b","l","e","=","'">> \o table
    \o <<"'","."," ","P","l","e","a","s","e"," ","e","n","s","u","r","e"," ","e","a","c","h"," ","t","a","b","l","e"," ","h","a","s"," ","o","n","l","y"," ","o","n","e"," ","c","o","n","f","i","g","u","r","a","t","i","o","n"," ","r","o","w",".">>

getEmbeddingConfig_FirstMatch(table, fileOk) ==
  LET d == getCsvData(fileOk)
      matchingRows == SelectSeq(d.rows, LAMBDA row : row.table = table)
  IN  IF d.threw
      THEN [threw |-> TRUE, err |-> d.err, cfg |-> NoConfig, cache |-> d.cache]
      ELSE IF Len(matchingRows) = 0
      THEN [threw |-> TRUE, err |-> Err(MsgNoConfiguration(table)), cfg |-> NoConfig,
            cache |-> d.cache]
      ELSE LET row == matchingRows[1] IN
           [threw |-> FALSE, err |-> NoErr, cache |-> d.cache,
            cfg |-> [embeddingColumn |-> row.embedding_column,
                     embeddingProvider |-> row.embedding_provider,
                     embeddingModel |-> row.embedding_model,
                     sparseEmbeddingColumn |-> row.sparse_embedding_column,
                     sparseIndexName |-> row.sparse_index_name,
                     sparseTokenizerProvider |-> row.sparse_tokenizer_provider,
                     sparseTokenizerModel |-> row.sparse_tokenizer_model]]

\* getEmbeddingConfig(table, config)
getEmbeddingConfig(table, fileOk) ==
  LET d == getCsvData(fileOk)
      matchingRows == SelectSeq(d.rows, LAMBDA row : row.table = table)
  IN  IF d.threw
      THEN [threw |-> TRUE, err |-> d.err, cfg |-> NoConfig, cache |-> d.cache]
      ELSE IF Len(matchingRows) = 0
      THEN [threw |-> TRUE, err |-> Err(MsgNoConfiguration(table)), cfg |-> NoConfig,
            cache |-> d.cache]
      ELSE IF Len(matchingRows) > 1
      THEN [threw |-> TRUE, err |-> Err(MsgMultipleConfigurations(table)), cfg |-> NoConfig,
            cache |-> d.cache]
      ELSE LET row == matchingRows[1] IN
           [threw |-> FALSE, err |-> NoErr, cache |-> d.cache,
            cfg |-> [embeddingColumn |-> row.embedding_column,
                     embeddingProvider |-> row.embedding_provider,
                     embeddingModel |-> row.embedding_model,
                     sparseEmbeddingColumn |-> row.sparse_embedding_column,
                     sparseIndexName |-> row.sparse_index_name,
                     sparseTokenizerProvider |-> row.sparse_tokenizer_provider,
                     sparseTokenizerModel |-> row.sparse_tokenizer_model]]

\* ------------------------------------------------------ utils/embeddings.ts
\* The names registerProvider was called with
providerRegistry == {<<"o","p","e","n","a","i">>, <<"s","e","n","t","e","n","c","e","_","t","r","a","n","s","f","o","r","m","e","r","s">>}

MsgUnknownProvider(name) == <<"U","n","k","n","o","w","n"," ","p","r","o","v","i","d","e","r",":"," ">> \o name

\* What a provider call that fails rejects with (the hosted API, the model download)
ProviderError == Err(<<"p","r","o","v","i","d","e","r"," ","r","e","q","u","e","s","t"," ","f","a","i","l","e","d">>)

\* denseEmbed awaits the hosted API or the local model: either may fail.
DenseOutcomes(provider) == {ResolvedEmbedding, Rejected(ProviderError)}

\* sparseEmbed of the OpenAI provider is local arithmetic; that of the
\* sentence-transformers provider awaits getModel first.
SparseOutcomes(provider) ==
  IF provider = <<"s","e","n","t","e","n","c","e","_","t","r","a","n","s","f","o","r","m","e","r","s">>
  THEN {ResolvedEmbedding, Rejected(ProviderError)}
  ELSE {ResolvedEmbedding}

\* --------------------------------------------------- utils/format-utils.ts
\* A row is the sequence of its cells in column order; a cell is
\* [col, t, v] with t the type of the value: "str", "num", "date", "vec".
Cell(c, t, v) == [col |-> c, t |-> t, v |-> v]

\* normalizeSearchResult, the map over the rows: a Date becomes its ISO string
NormalizeCell(cell) == IF cell.t = "date" THEN [cell EXCEPT !.t = "iso"] ELSE cell

NormalizeRow(row) == [k \in 1..Len(row) |-> NormalizeCell(row[k])]

\* The caller's rows after removeVectorColumns has returned: line 21 copies
\* each row (`{ ...row }`) and the deletes of lines 23 and 27 act on the copy.
InputAfterStrip(data, table, fileOk) == data

removeVectorColumns_DenseOnly(data, table, fileOk) ==
  LET g == getEmbeddingConfig(table, fileOk)
      Keep(cell) == ~(g.cfg.embeddingColumn # <<>> /\ cell.col = g.cfg.embeddingColumn)
  IN  IF g.threw
      THEN data
      ELSE [k \in 1..Len(data) |-> SelectSeq(data[k], Keep)]

removeVectorColumns_ElseIf(data, table, fileOk) ==
  LET g == getEmbeddingConfig(table, fileOk)
      HasDense(row) ==
        g.cfg.embeddingColumn # <<>>
          /\ \E k \in 1..Len(row) : row[k].col = g.cfg.embeddingColumn
      Strip(row) ==
        IF HasDense(row)
        THEN SelectSeq(row, LAMBDA cell : cell.col # g.cfg.embeddingColumn)
        ELSE SelectSeq(row, LAMBDA cell :
               ~(g.cfg.sparseEmbeddingColumn # <<>> /\ cell.col = g.cfg.sparseEmbeddingColumn))
  IN  IF g.threw
      THEN data
      ELSE [k \in 1..Len(data) |-> Strip(data[k])]

\* removeVectorColumns(data, tableName, config, logger)
removeVectorColumns(data, table, fileOk) ==
  LET g == getEmbeddingConfig(table, fileOk)
      Keep(cell) ==
        /\ ~(g.cfg.embeddingColumn # <<>> /\ cell.col = g.cfg.embeddingColumn)
        /\ ~(g.cfg.sparseEmbeddingColumn # <<>> /\ cell.col = g.cfg.sparseEmbeddingColumn)
  IN  IF g.threw
      THEN data
      ELSE [k \in 1..Len(data) |-> SelectSeq(data[k], Keep)]

\* normalizeSearchResult(data, tableName, config, logger)
normalizeSearchResult(data, table, fileOk) ==
  removeVectorColumns([k \in 1..Len(data) |-> NormalizeRow(data[k])], table, fileOk)

\* -------------------------------------------------------- tool invocations
\* One invocation of a tool implementation.
\*   pc       where the async function is suspended
\*   out      the settled value of the promise it awaits
\*   threw    the promise of the implementation was rejected (an exception
\*            reached the protocol layer)
\*   caught   the error its catch block received (NoErr: none)
\*   got      the settled value the last resumption consumed
\*   nAcq, nRemote, nEmbed   calls of getKDBConnection, conn.query and the
\*            embedding provider made by this invocation
Idle ==
  [tool |-> "none", pc |-> "idle", query |-> <<>>, table |-> <<>>, cfg |-> NoConfig,
   out |-> NoOut, got |-> NoOut, conn |-> 0, res |-> NoResult, threw |-> FALSE,
   caught |-> NoErr, nAcq |-> 0, nRemote |-> 0, nEmbed |-> 0,
   n |-> Undefined, k |-> 0, denseWith |-> <<>>, sparseWith |-> <<>>, sent |-> <<>>,
   input |-> <<>>, path |-> "", read |-> FALSE]

\* The function settles: `o` is what its try/catch made of the body's outcome `b`.
Finish(r, b, o) ==
  [r EXCEPT !.pc = "done", !.out = NoOut, !.got = r.out, !.res = o.res,
            !.threw = o.threw, !.caught = b.err]

\* ------------------------------------------- tools/kdbx-run-sql-query.ts
queryUpper_CaseSensitive(q) == trim(q)

\* runQueryImpl, line 135
queryUpper(q) == trim(toUpperCase(q))

DangerousKeyword_NoSelectExemption(q) ==
  LET hits == {k \in 1..Len(dangerousKeywords) :
                 includes(trim(toUpperCase(q)), dangerousKeywords[k])}
  IN  IF hits = {} THEN 0 ELSE CHOOSE k \in hits : \A h \in hits : k <= h

\* runQueryImpl, lines 137-141: the index of the keyword the loop throws for, 0 if none
DangerousKeyword(q) ==
  LET hits == {k \in 1..Len(dangerousKeywords) :
                 includes(queryUpper(q), dangerousKeywords[k])
                 /\ ~startsWith(queryUpper(q), SELECT)}
  IN  IF hits = {} THEN 0 ELSE CHOOSE k \in hits : \A h \in hits : k <= h

\* runQueryImpl, lines 134-141
SafetyGate(q) ==
  IF DangerousKeyword(q) # 0
  THEN Threw(Err(MsgDangerous(DangerousKeyword(q))))
  ELSE Returned(NoResult)

ShapeQueryResult_NoEmptyBranch(reply) ==
  LET total == IF reply.shape # "record" \/ reply.rowCount = Undefined THEN 0 ELSE reply.rowCount
      rows == IF reply.hasData THEN reply.data ELSE <<>>
  IN  IF total > MAX_ROWS_RETURNED
      THEN Result([status |-> "success", data |-> rows, message |-> MsgShowing(total)])
      ELSE Result([status |-> "success", data |-> rows])

\* runQueryImpl, lines 152-170: the result made of the value conn.query resolved with
ShapeQueryResult(reply) ==
  LET total == IF reply.shape # "record" \/ reply.rowCount = Undefined THEN 0 ELSE reply.rowCount
      rows == IF reply.hasData THEN reply.data ELSE <<>>
  IN  IF total = 0
      THEN Result([status |-> "success", data |-> <<>>, message |-> MsgNoRows])
      ELSE IF total > MAX_ROWS_RETURNED
      THEN Result([status |-> "success", data |-> rows, message |-> MsgShowing(total)])
      ELSE Result([status |-> "success", data |-> rows])

QueryCatch_NoMarker(e) == Result([status |-> "error", message |-> ErrorToString(e)])

\* runQueryImpl, lines 171-186: the catch block
QueryCatch(e) ==
  IF e.message # <<>> /\ includes(e.message, SqlMarker)
  THEN Result([status |-> "error", error_type |-> "sql_interface_not_loaded",
               message |-> MsgSqlNotLoaded, technical_details |-> ErrorToString(e)])
  ELSE Result([status |-> "error", message |-> ErrorToString(e)])

\* runQueryImpl, the try/catch around the whole body
QueryTry(b) == IF b.threw THEN Returned(QueryCatch(b.err)) ELSE b

\* The SQL texts callers submit
Queries ==
  { <<"S","E","L","E","C","T"," ","*"," ","F","R","O","M"," ","t">>,
    <<" "," ","s","e","l","e","c","t"," ","c","r","e","a","t","e","d","_","a","t"," ","f","r","o","m"," ","t","\n">>,
    <<"s","e","l","e","c","t","i","o","n",";"," ","d","r","o","p"," ","t","a","b","l","e"," ","t">>,
    <<"\t","d","r","o","p"," ","t","a","b","l","e"," ","t"," ">>,
    <<"a","l","t","e","r"," ","t","a","b","l","e"," ","t",";"," ","D","r","o","p"," ","t","a","b","l","e"," ","u">>,
    <<"I","N","S","E","R","T"," ","I","N","T","O"," ","t"," ","S","E","L","E","C","T"," ","1">>,
    <<"u","p","d","a","t","e"," ","t"," ","s","e","t"," ","x"," ","="," ","'","d","e","l","e","t","e","d","'">>,
    <<"U","P","D","A","T","E"," ","t"," ","S","E","T"," ","a"," ","="," ","1">>,
    <<"t","i","l"," ","1","0">> }

\* kdbx_run_sql_query is invoked with query q: runQueryImpl up to its first await
RunSqlQuery(i, q) ==
  /\ inv[i].pc = "idle"
  /\ LET r == [Idle EXCEPT !.tool = "sql", !.query = q]
         b == SafetyGate(q)
     IN  IF b.threw
         THEN /\ inv' = [inv EXCEPT ![i] = Finish(r, b, QueryTry(b))]
              /\ UNCHANGED <<cachedConnection, connected, nextConn, lastAcquire, closed>>
         ELSE /\ CanAcquire
              /\ Acquire(getKDBConnection)
              /\ inv' = [inv EXCEPT ![i] =
                   [r EXCEPT !.pc = "awaitConn", !.nAcq = 1,
                             !.out = AcquireOutcome(getKDBConnection)]]
  /\ UNCHANGED <<config, server, call, csvCache>>

\* runQueryImpl resumes with the connection and calls conn.query (lines 143-150)
SqlAfterConnect(i) ==
  /\ inv[i].tool = "sql" /\ inv[i].pc = "awaitConn"
  /\ LET r == inv[i]
         b == Threw(r.out.err)
     IN  inv' = [inv EXCEPT ![i] =
           IF r.out.kind = "error"
           THEN Finish(r, b, QueryTry(b))
           ELSE [r EXCEPT !.pc = "awaitQuery", !.conn = r.out.conn,
                          !.nRemote = r.nRemote + 1, !.sent = <<SqlLambda>>,
                          !.out = KDBConnectionImpl_query(r.out.conn)]]
  /\ UNCHANGED <<config, server, call, cachedConnection, connected, nextConn, csvCache, lastAcquire, closed>>

SqlAfterQuery_Retry(i) ==
  /\ inv[i].tool = "sql" /\ inv[i].pc = "awaitQuery"
  /\ inv[i].out.kind # "pending"
  /\ LET r == inv[i]
         b == IF r.out.kind = "error" THEN Threw(r.out.err)
              ELSE Returned(ShapeQueryResult(r.out))
     IN  inv' = [inv EXCEPT ![i] =
           IF r.out.kind = "error" /\ r.nRemote < 2
           THEN [r EXCEPT !.nRemote = r.nRemote + 1,
                          !.out = KDBConnectionImpl_query(r.conn)]
           ELSE Finish(r, b, QueryTry(b))]
  /\ UNCHANGED <<config, server, call, cachedConnection, connected, nextConn, csvCache, lastAcquire, closed>>

\* runQueryImpl resumes with the settled remote call (lines 152-186)
SqlAfterQuery(i) ==
  /\ inv[i].tool = "sql" /\ inv[i].pc = "awaitQuery"
  /\ inv[i].out.kind # "pending"
  /\ LET r == inv[i]
         b == IF r.out.kind = "error" THEN Threw(r.out.err)
              ELSE Returned(ShapeQueryResult(r.out))
     IN  inv' = [inv EXCEPT ![i] = Finish(r, b, QueryTry(b))]
  /\ UNCHANGED <<config, server, call, cachedConnection, connected, nextConn, csvCache, lastAcquire, closed>>

\* ---------------------------------------------- tools/kdbx-sim-search.ts
MsgNoEmbeddingConfiguration(table) ==
  <<"T","a","b","l","e"," ">> \o table \o <<" ","d","o","e","s"," ","n","o","t"," ","h","a","v","e"," ","e","m","b","e","d","d","i","n","g"," ","c","o","n","f","i","g","u","r","a","t","i","o","n">>
MsgNoSparseIndex == <<"T","h","e"," ","r","e","q","u","e","s","t","e","d"," ","t","a","b","l","e"," ","d","o","e","s"," ","n","o","t"," ","h","a","v","e"," ","s","p","a","r","s","e"," ","i","n","d","e","x">>
MsgNoResults == <<"N","o"," ","r","e","s","u","l","t","s"," ","f","o","u","n","d"," ","-"," ","t","h","e"," ","s","p","a","r","s","e"," ","s","e","a","r","c","h"," ","r","e","t","u","r","n","e","d"," ","n","o"," ","m","a","t","c","h","e","s"," ","f","o","r"," ","t","h","e"," ","q","u","e","r","y">>
MsgNullMap == <<"C","a","n","n","o","t"," ","r","e","a","d"," ","p","r","o","p","e","r","t","i","e","s"," ","o","f"," ","n","u","l","l"," ","(","r","e","a","d","i","n","g"," ","'","m","a","p","'",")">>

\* The catch block of kdbxSimilaritySearchImpl and of kdbxHybridSearchImpl
SearchCatch(e, table) ==
  Result([status |-> "error", message |-> ErrorToString(e), table |-> table])

SearchTry_Rethrow(b, table) == b

\* The try/catch around the whole body of either implementation
SearchTry(b, table) == IF b.threw THEN Returned(SearchCatch(b.err, table)) ELSE b

\* What a synchronous stretch that ends in an await hands on
Awaiting(cfg) == [threw |-> FALSE, res |-> NoResult, err |-> NoErr, cfg |-> cfg, await |-> TRUE]
Settled(b) == [threw |-> b.threw, res |-> b.res, err |-> b.err, cfg |-> NoConfig, await |-> FALSE]

SimilarityBegin_ColumnOnly(table, g) ==
  IF g.threw
  THEN Settled(Threw(g.err))
  ELSE IF g.cfg.embeddingColumn = <<>>
  THEN Settled(Threw(Err(MsgNoEmbeddingConfiguration(table))))
  ELSE IF g.cfg.embeddingProvider \notin providerRegistry
  THEN Settled(Threw(Err(MsgUnknownProvider(g.cfg.embeddingProvider))))
  ELSE Awaiting(g.cfg)

\* kdbxSimilaritySearchImpl, lines 71-79, up to the call of denseEmbed
SimilarityBegin(table, g) ==
  IF g.threw
  THEN Settled(Threw(g.err))
  ELSE IF g.cfg.embeddingColumn = <<>> \/ g.cfg.embeddingProvider = <<>>
          \/ g.cfg.embeddingModel = <<>>
  THEN Settled(Threw(Err(MsgNoEmbeddingConfiguration(table))))
  ELSE IF g.cfg.embeddingProvider \notin providerRegistry
  THEN Settled(Threw(Err(MsgUnknownProvider(g.cfg.embeddingProvider))))
  ELSE Awaiting(g.cfg)

\* kdbxHybridSearchImpl, lines 132-135: the name sparseProvider is looked up by
SparseProviderName(cfg) ==
  IF cfg.sparseTokenizerProvider = cfg.embeddingProvider
  THEN cfg.embeddingProvider
  ELSE IF cfg.sparseTokenizerProvider # <<>>
       THEN cfg.sparseTokenizerProvider
       ELSE cfg.embeddingProvider

HybridBegin_ConfigFirst(table, g) ==
  IF g.threw
  THEN Settled(Threw(g.err))
  ELSE IF g.cfg.embeddingProvider = <<>> \/ g.cfg.embeddingModel = <<>>
  THEN Settled(Threw(Err(MsgNoEmbeddingConfiguration(table))))
  ELSE IF g.cfg.sparseIndexName = <<>>
  THEN Settled(Returned(Result([status |-> "error", message |-> MsgNoSparseIndex,
                                table |-> table])))
  ELSE IF g.cfg.embeddingProvider \notin providerRegistry
  THEN Settled(Threw(Err(MsgUnknownProvider(g.cfg.embeddingProvider))))
  ELSE IF SparseProviderName(g.cfg) \notin providerRegistry
  THEN Settled(Threw(Err(MsgUnknownProvider(SparseProviderName(g.cfg)))))
  ELSE Awaiting(g.cfg)

\* kdbxHybridSearchImpl, lines 115-137, up to the call of denseEmbed
HybridBegin(table, g) ==
  IF g.threw
  THEN Settled(Threw(g.err))
  ELSE IF g.cfg.sparseIndexName = <<>>
  THEN Settled(Returned(Result([status |-> "error", message |-> MsgNoSparseIndex,
                                table |-> table])))
  ELSE IF g.cfg.embeddingProvider = <<>> \/ g.cfg.embeddingModel = <<>>
  THEN Settled(Threw(Err(MsgNoEmbeddingConfiguration(table))))
  ELSE IF g.cfg.embeddingProvider \notin providerRegistry
  THEN Settled(Threw(Err(MsgUnknownProvider(g.cfg.embeddingProvider))))
  ELSE IF SparseProviderName(g.cfg) \notin providerRegistry
  THEN Settled(Threw(Err(MsgUnknownProvider(SparseProviderName(g.cfg)))))
  ELSE Awaiting(g.cfg)

\* kdbxSimilaritySearchImpl, lines 89-96: the result made of the value conn.query resolved with
SimilarityShape(reply, table, fileOk) ==
  IF reply.shape = "null"
  THEN Threw(TypeErr(MsgNullMap))
  ELSE LET normalized == normalizeSearchResult(reply.data, table, fileOk) IN
       Returned(Result([status |-> "success", table |-> table,
                        recordsCount |-> Len(normalized), records |-> normalized]))

HybridShape_NoEmptyBranch(reply, table, fileOk) == SimilarityShape(reply, table, fileOk)

\* kdbxHybridSearchImpl, lines 150-170
HybridShape(reply, table, fileOk) ==
  IF reply.shape = "null" \/ (reply.shape = "rows" /\ Len(reply.data) = 0)
  THEN Returned(Result([status |-> "success", table |-> table, recordsCount |-> 0,
                        records |-> <<>>, message |-> MsgNoResults]))
  ELSE LET normalized == normalizeSearchResult(reply.data, table, fileOk) IN
       Returned(Result([status |-> "success", table |-> table,
                        recordsCount |-> Len(normalized), records |-> normalized]))

\* The arguments of the conn.query call of a search tool
RemoteArguments(tool) == IF tool = "sim" THEN <<SimLambda>> ELSE <<HybridLambda>>

\* `n ?? config.k` (lines 71 and 115)
ResultCount(n) == IF n = Undefined THEN DefaultK ELSE n

SparseModelName_Coupled(cfg) ==
  IF cfg.sparseTokenizerProvider # <<>> THEN cfg.sparseTokenizerModel ELSE cfg.embeddingModel

\* The model the sparse embedding is asked of (line 140)
SparseModelName(cfg) ==
  IF cfg.sparseTokenizerModel # <<>> THEN cfg.sparseTokenizerModel ELSE cfg.embeddingModel

\* The calls of kdbx_similarity_search: every table without n, one with n = 3
\* For the similarity search news differs from docs, and dup from plain, only in
\* columns it does not read; for the hybrid search dup is plain again.
SimilarityInputs ==
  {<<t, Undefined>> : t \in Tables \ {<<"n","e","w","s">>, <<"d","u","p">>}} \cup {<<<<"d","o","c","s">>, 3>>}

\* kdbx_similarity_search is invoked: kdbxSimilaritySearchImpl up to its first await
SimilaritySearch(i, table, n) ==
  /\ inv[i].pc = "idle"
  /\ \E fileOk \in BOOLEAN :
       LET r == [Idle EXCEPT !.tool = "sim", !.table = table, !.n = n,
                             !.k = ResultCount(n)]
           g == getEmbeddingConfig(table, fileOk)
           b == SimilarityBegin(table, g)
       IN  /\ csvCache' = g.cache
           /\ IF b.await
              THEN \E o \in DenseOutcomes(b.cfg.embeddingProvider) :
                     inv' = [inv EXCEPT ![i] =
                       [r EXCEPT !.pc = "awaitDense", !.cfg = b.cfg, !.nEmbed = 1, !.out = o,
                                 !.denseWith = <<b.cfg.embeddingProvider, b.cfg.embeddingModel>>]]
              ELSE inv' = [inv EXCEPT ![i] = Finish(r, b, SearchTry(b, table))]
  /\ UNCHANGED <<config, server, call, cachedConnection, connected, nextConn, lastAcquire, closed>>

\* The calls of kdbx_hybrid_search: every table, and the two whose rows set
\* only one of sparse tokenizer provider and model
HybridInputs == (Tables \ {<<"d","u","p">>}) \cup {<<"m","i","x","p">>, <<"m","i","x","m">>}

\* kdbx_hybrid_search is invoked: kdbxHybridSearchImpl up to its first await
HybridSearch(i, table) ==
  /\ inv[i].pc = "idle"
  /\ \E fileOk \in BOOLEAN :
       LET r == [Idle EXCEPT !.tool = "hybrid", !.table = table, !.k = ResultCount(Undefined)]
           g == getEmbeddingConfig(table, fileOk)
           b == HybridBegin(table, g)
       IN  /\ csvCache' = g.cache
           /\ IF b.await
              THEN \E o \in DenseOutcomes(b.cfg.embeddingProvider) :
                     inv' = [inv EXCEPT ![i] =
                       [r EXCEPT !.pc = "awaitDense", !.cfg = b.cfg, !.nEmbed = 1, !.out = o,
                                 !.denseWith = <<b.cfg.embeddingProvider, b.cfg.embeddingModel>>]]
              ELSE inv' = [inv EXCEPT ![i] = Finish(r, b, SearchTry(b, table))]
  /\ UNCHANGED <<config, server, call, cachedConnection, connected, nextConn, lastAcquire, closed>>

\* Either implementation calls getKDBConnection (line 81, line 143)
SearchConnect(i) ==
  /\ CanAcquire
  /\ Acquire(getKDBConnection)
  /\ inv' = [inv EXCEPT ![i] =
       [@ EXCEPT !.pc = "awaitConn", !.nAcq = @ + 1, !.out = AcquireOutcome(getKDBConnection)]]

\* kdbxSimilaritySearchImpl resumes with the dense vector (lines 79-81)
SimAfterDense(i) ==
  /\ inv[i].tool = "sim" /\ inv[i].pc = "awaitDense"
  /\ LET r == inv[i]
         b == Threw(r.out.err)
     IN  IF r.out.kind = "error"
         THEN /\ inv' = [inv EXCEPT ![i] = Finish(r, b, SearchTry(b, r.table))]
              /\ UNCHANGED <<cachedConnection, connected, nextConn, lastAcquire, closed>>
         ELSE SearchConnect(i)
  /\ UNCHANGED <<config, server, call, csvCache>>

\* kdbxHybridSearchImpl resumes with the dense vector and calls sparseEmbed (lines 137-141)
HybridAfterDense(i) ==
  /\ inv[i].tool = "hybrid" /\ inv[i].pc = "awaitDense"
  /\ LET r == inv[i]
         b == Threw(r.out.err)
     IN  IF r.out.kind = "error"
         THEN inv' = [inv EXCEPT ![i] = Finish(r, b, SearchTry(b, r.table))]
         ELSE \E o \in SparseOutcomes(SparseProviderName(r.cfg)) :
                inv' = [inv EXCEPT ![i] =
                  [r EXCEPT !.pc = "awaitSparse", !.nEmbed = r.nEmbed + 1, !.out = o,
                            !.sparseWith = <<SparseProviderName(r.cfg), SparseModelName(r.cfg)>>]]
  /\ UNCHANGED <<config, server, call, cachedConnection, connected, nextConn, csvCache, lastAcquire, closed>>

\* kdbxHybridSearchImpl resumes with the sparse vector (lines 138-143)
HybridAfterSparse(i) ==
  /\ inv[i].tool = "hybrid" /\ inv[i].pc = "awaitSparse"
  /\ LET r == inv[i]
         b == Threw(r.out.err)
     IN  IF r.out.kind = "error"
         THEN /\ inv' = [inv EXCEPT ![i] = Finish(r, b, SearchTry(b, r.table))]
              /\ UNCHANGED <<cachedConnection, connected, nextConn, lastAcquire, closed>>
         ELSE SearchConnect(i)
  /\ UNCHANGED <<config, server, call, csvCache>>

\* Either implementation resumes with the connection and calls conn.query
\* (lines 81-87, lines 143-148)
SearchAfterConnect(i) ==
  /\ inv[i].tool \in {"sim", "hybrid"} /\ inv[i].pc = "awaitConn"
  /\ LET r == inv[i]
         b == Threw(r.out.err)
     IN  inv' = [inv EXCEPT ![i] =
           IF r.out.kind = "error"
           THEN Finish(r, b, SearchTry(b, r.table))
           ELSE [r EXCEPT !.pc = "awaitQuery", !.conn = r.out.conn,
                          !.nRemote = r.nRemote + 1, !.sent = RemoteArguments(r.tool),
                          !.out = KDBConnectionImpl_query(r.out.conn)]]
  /\ UNCHANGED <<config, server, call, cachedConnection, connected, nextConn, csvCache, lastAcquire, closed>>

\* Either implementation resumes with the settled remote call (lines 89-104, 150-178)
SearchAfterQuery(i) ==
  /\ inv[i].tool \in {"sim", "hybrid"} /\ inv[i].pc = "awaitQuery"
  /\ inv[i].out.kind # "pending"
  /\ \E fileOk \in BOOLEAN :
       LET r == inv[i]
           b == IF r.out.kind = "error" THEN Threw(r.out.err)
                ELSE IF r.tool = "sim" THEN SimilarityShape(r.out, r.table, fileOk)
                ELSE HybridShape(r.out, r.table, fileOk)
       IN  /\ inv' = [inv EXCEPT ![i] = Finish(r, b, SearchTry(b, r.table))]
           /\ csvCache' = IF r.out.kind = "error" \/ r.out.shape = "null"
                             \/ (r.tool = "hybrid" /\ Len(r.out.data) = 0)
                          THEN csvCache
                          ELSE getCsvData(fileOk).cache
  /\ UNCHANGED <<config, server, call, cachedConnection, connected, nextConn, lastAcquire, closed>>

\* The tool handler returns the JSON text of the result; the slot is free again.
Return(i) ==
  /\ inv[i].pc = "done"
  /\ inv' = [inv EXCEPT ![i] = Idle]
  /\ UNCHANGED <<config, server, call, cachedConnection, connected, nextConn, csvCache, lastAcquire, closed>>

\* cleanupKDBConnection is called
Cleanup == cleanupKDBConnection

\* ----------------------------------------------------------------- server.ts
\* The KdbxMcpServer object with the module variable aiLibsAvailable and the
\* process that runs it (cli.ts).
\*   pc                  where run() stands: an await, "serving" or "exited"
\*   transport           config.mcp.transport
\*   warning             whether the Logger handed to the constructor has a
\*                       method `warning` (logging.ts creates it with winston's
\*                       default levels; server.ts calls warning, the tools warn)
\*   out                 the settled promise run() is about to consume
\*   conn                the local `conn` of checkKDBConnection (0: not yet set)
\*   registeredTools     tools/index.ts, registeredTools
\*   checks              the startup checks that have succeeded, in order (history)
\*   failed              the startup step that failed (history)
\*   transportConnected  mcpServer.connect(transport) has resolved
NoServer ==
  [pc |-> "none", transport |-> "stdio", warning |-> TRUE, out |-> NoOut,
   conn |-> 0, kdbType |-> "none", aiLibsAvailable |-> FALSE, aiLibsLoaded |-> "unknown",
   registeredTools |-> {}, checks |-> <<>>, failed |-> "none",
   transportConnected |-> FALSE, exited |-> FALSE, exitCode |-> 0]

NoCall ==
  [pc |-> "none", conn |-> 0, attempt |-> 0, lastError |-> NoErr, failed |-> 0,
   waits |-> <<>>, out |-> NoOut]

Transports == {"stdio", "streamable-http", "sse"}

SearchTools == {"kdbx_similarity_search", "kdbx_hybrid_search"}

\* A promise resolved with a value of the given shape
Resolved(shape) == [NoOut EXCEPT !.kind = "value", !.shape = shape]

\* What the listen of checkPortAvailability can report
PortErrors == {Err(<<"E","A","D","D","R","I","N","U","S","E">>), Err(<<"E","A","C","C","E","S">>)}

\* What mcpServer.connect can reject with
TransportError == Err(<<"A","l","r","e","a","d","y"," ","c","o","n","n","e","c","t","e","d"," ","t","o"," ","a"," ","t","r","a","n","s","p","o","r","t">>)

\* process.exit(1), at server.ts lines 198 and 253 and in cli.ts
ProcessExit(s, step) ==
  [s EXCEPT !.pc = "exited", !.exited = TRUE, !.exitCode = 1, !.failed = step,
            !.out = NoOut]

\* tools/index.ts, registerTools: the names it pushes
registerTools(aiLibsAvailable) ==
  {"kdbx_run_sql_query"} \cup (IF aiLibsAvailable THEN SearchTools ELSE {})

Passed(s, check) == [s EXCEPT !.checks = Append(@, check)]

\* JavaScript truthiness of a reply of the database
Truthy(reply) == reply.shape \notin {"false", "null"}

SqlInterfaceLoaded_Ignored(reply) == TRUE

\* checkKDBConnection, line 194: the test on the reply of the SQL-interface query
SqlInterfaceLoaded(reply) == Truthy(reply)

\* run(), after checkKDBConnection has returned: the states it can stop in
\* next, awaiting mcpServer.connect or having thrown into cli.ts.
StartTransport(s) ==
  IF s.transport = "stdio" \/ (s.transport = "streamable-http" /\ s.warning)
  THEN {[s EXCEPT !.pc = "awaitTransport", !.out = o] :
          o \in {Resolved("void"), Rejected(TransportError)}}
  ELSE {ProcessExit(s, "transport")}

\* new KdbxMcpServer(settings, logger): registerHandlers runs in the constructor
Construct ==
  /\ server.pc = "new"
  /\ server' = [server EXCEPT !.pc = "constructed",
                              !.registeredTools = registerTools(server.aiLibsAvailable)]
  /\ UNCHANGED <<config, cachedConnection, connected, nextConn, csvCache, inv,
                 lastAcquire, closed, call>>

\* run() up to `await this.checkPortAvailability()`
Run ==
  /\ server.pc = "constructed"
  /\ \E o \in (IF server.transport = "streamable-http"
               THEN {Resolved("void")} \cup {Rejected(e) : e \in PortErrors}
               ELSE {Resolved("void")}) :
       server' = [server EXCEPT !.pc = "awaitPort", !.out = o]
  /\ UNCHANGED <<config, cachedConnection, connected, nextConn, csvCache, inv,
                 lastAcquire, closed, call>>

\* From the port check to `await getKDBConnection` of checkKDBConnection
AfterPort ==
  /\ server.pc = "awaitPort"
  /\ IF server.out.kind = "error"
     THEN /\ server' = ProcessExit(server, "port")
          /\ UNCHANGED <<cachedConnection, connected, nextConn, lastAcquire, closed>>
     ELSE /\ CanAcquire
          /\ LET a == getKDBConnection IN
               /\ Acquire(a)
               /\ server' = [Passed(server, "port") EXCEPT
                               !.pc = "awaitConn", !.out = AcquireOutcome(a)]
  /\ UNCHANGED <<config, csvCache, inv, call>>

\* checkKDBConnection from the connection to `await conn.query('.z.v...')`
AfterConn ==
  /\ server.pc = "awaitConn"
  /\ server' = IF server.out.kind = "error"
               THEN ProcessExit(server, "db")
               ELSE [server EXCEPT !.pc = "awaitVersion", !.conn = server.out.conn,
                                   !.out = KDBConnectionImpl_query(server.out.conn)]
  /\ UNCHANGED <<config, cachedConnection, connected, nextConn, csvCache, inv,
                 lastAcquire, closed, call>>

\* checkKDBConnection from a version reply to the SQL-interface query
ToSqlCheck(s, kdbType) ==
  [Passed(s, "db") EXCEPT !.pc = "awaitSql", !.kdbType = kdbType,
                          !.out = KDBConnectionImpl_query(s.conn)]

AfterVersion ==
  /\ server.pc = "awaitVersion"
  /\ server' = IF server.out.kind = "error"
               THEN [server EXCEPT !.pc = "awaitVersionK",
                                   !.out = KDBConnectionImpl_query(server.conn)]
               ELSE ToSqlCheck(server, "KDB-X")
  /\ UNCHANGED <<config, cachedConnection, connected, nextConn, csvCache, inv,
                 lastAcquire, closed, call>>

\* The fallback `.z.K` of the inner catch
AfterVersionK ==
  /\ server.pc = "awaitVersionK"
  /\ server' = IF server.out.kind = "error"
               THEN ProcessExit(server, "db")
               ELSE ToSqlCheck(server, "KDB+")
  /\ UNCHANGED <<config, cachedConnection, connected, nextConn, csvCache, inv,
                 lastAcquire, closed, call>>

\* From the reply of the SQL-interface query to the AI-libs query
AfterSql ==
  /\ server.pc = "awaitSql"
  /\ server' = IF server.out.kind = "error" \/ ~SqlInterfaceLoaded(server.out)
               THEN ProcessExit(server, "sql")
               ELSE [Passed(server, "sql") EXCEPT
                       !.pc = "awaitAi",
                       !.out = KDBConnectionImpl_query(server.conn)]
  /\ UNCHANGED <<config, cachedConnection, connected, nextConn, csvCache, inv,
                 lastAcquire, closed, call>>

\* From the reply of the AI-libs query to `await this.mcpServer.connect`
AfterAi ==
  /\ server.pc = "awaitAi"
  /\ IF server.out.kind = "error"
     THEN server' = ProcessExit(server, "ai")
     ELSE IF ~Truthy(server.out)
          THEN IF server.warning
               THEN server' \in StartTransport([server EXCEPT !.aiLibsLoaded = "no"])
               ELSE server' = ProcessExit([server EXCEPT !.aiLibsLoaded = "no"], "ai")
          ELSE server' \in StartTransport([server EXCEPT !.aiLibsLoaded = "yes",
                                                         !.aiLibsAvailable = TRUE])
  /\ UNCHANGED <<config, cachedConnection, connected, nextConn, csvCache, inv,
                 lastAcquire, closed, call>>

\* mcpServer.connect has settled
AfterTransport ==
  /\ server.pc = "awaitTransport"
  /\ server' = IF server.out.kind = "error"
               THEN ProcessExit(server, "transport")
               ELSE [server EXCEPT !.pc = "serving", !.transportConnected = TRUE,
                                   !.out = NoOut]
  /\ UNCHANGED <<config, cachedConnection, connected, nextConn, csvCache, inv,
                 lastAcquire, closed, call>>

\* ------------------------------------------------------------ specification
\* The values of config.retry: the default 2, 0 (a single attempt) and -1.
\* loadKDBConfig takes retry from parseInt of KDBX_DB_RETRY and never applies
\* KDBConfigSchema, so a negative value gets through.
RetryValues == {-1, 0, 2}

Configs == [retry : RetryValues, embeddingCsvPath : {"embeddings.csv"}]

Init ==
  /\ config \in Configs
  /\ cachedConnection = 0
  /\ connected = [c \in Conns |-> FALSE]
  /\ nextConn = 0
  /\ csvCache = NoCsv
  /\ inv = [i \in Inv |-> Idle]
  /\ lastAcquire = NoAcquire
  /\ closed = NotClosed
  /\ server = NoServer
  /\ call = NoCall

Next ==
  \/ \E i \in Inv, q \in Queries : RunSqlQuery(i, q)
  \/ \E i \in Inv : SqlAfterConnect(i)
  \/ \E i \in Inv : SqlAfterQuery(i)
  \/ \E i \in Inv, a \in SimilarityInputs : SimilaritySearch(i, a[1], a[2])
  \/ \E i \in Inv, t \in HybridInputs : HybridSearch(i, t)
  \/ \E i \in Inv : SimAfterDense(i)
  \/ \E i \in Inv : HybridAfterDense(i)
  \/ \E i \in Inv : HybridAfterSparse(i)
  \/ \E i \in Inv : SearchAfterConnect(i)
  \/ \E i \in Inv : SearchAfterQuery(i)
  \/ \E i \in Inv : Return(i)
  \/ Cleanup

Spec == Init /\ [][Next]_vars

\* ------------------------------------- the continuations as functions of the reply
\* KDBConnectionImpl.query never resolves, so under Spec the code after
\* `await conn.query(...)` only ever sees its rejection. SpecReply starts as Spec
\* does, or with one invocation suspended at that await and the promise
\* settled with any value or rejection of the KDBConnection interface, and
\* runs the same actions from there.
Rows(m) == [k \in 1..m |-> k]

\* rowCount of the remote result, and how many of its rows `data` holds:
\* all of them, or the first MAX_ROWS_RETURNED
RowCounts == {0, 1, 2, MAX_ROWS_RETURNED, MAX_ROWS_RETURNED + 1, 1500}

SqlReply(n, m) ==
  [NoOut EXCEPT !.kind = "value", !.shape = "record", !.rowCount = n,
                !.hasData = TRUE, !.data = Rows(m)]

SqlReplies ==
  {SqlReply(n, n) : n \in RowCounts}
    \cup {SqlReply(n, MAX_ROWS_RETURNED) : n \in {k \in RowCounts : k > MAX_ROWS_RETURNED}}

QueryErrors ==
  { Err(MsgNotConnected), Err(MsgNotImplemented), Err(<<".","s",".","e">>),
    Err(<<"e","r","r","o","r"," ","i","n"," ",".","s",".","e"," ","x",":"," ","n","o","t"," ","l","o","a","d","e","d">>), Err(<<".","s",".","i","n","i","t">>), Err(<<"t","i","m","e","o","u","t">>), Err(<<>>) }

\* Rows a search call may resolve with
SearchRow(n) ==
  << Cell(<<"i","d">>, "num", n), Cell(<<"v","e","c">>, "vec", n), Cell(<<"t","s">>, "date", n),
     Cell(<<"s","v","e","c">>, "vec", n), Cell(<<"t","e","x","t">>, "str", n) >>

SearchReply(shape, rows) ==
  [NoOut EXCEPT !.kind = "value", !.shape = shape, !.hasData = TRUE, !.data = rows]

SearchReplies ==
  { SearchReply("null", <<>>), SearchReply("rows", <<>>),
    SearchReply("rows", <<SearchRow(1)>>), SearchReply("rows", <<SearchRow(1), SearchRow(2)>>) }

Suspended(tool, q, table, cfg, nEmbed, o) ==
  [Idle EXCEPT !.tool = tool, !.pc = "awaitQuery", !.query = q, !.table = table,
               !.cfg = cfg, !.conn = 1, !.nAcq = 1, !.nRemote = 1, !.nEmbed = nEmbed,
               !.out = o, !.got = ResolvedConn(1),
               !.k = IF tool = "sql" THEN 0 ELSE ResultCount(Undefined),
               !.sent = IF tool = "sql" THEN <<SqlLambda>> ELSE RemoteArguments(tool),
               !.denseWith = IF tool = "sql" THEN <<>>
                             ELSE <<cfg.embeddingProvider, cfg.embeddingModel>>,
               !.sparseWith = IF tool = "hybrid"
                              THEN <<SparseProviderName(cfg), SparseModelName(cfg)>>
                              ELSE <<>>]

InitSuspended ==
  /\ config \in {c \in Configs : c.retry + 1 >= 1}
  /\ cachedConnection = 1
  /\ connected = [c \in Conns |-> FALSE]
  /\ nextConn = 1
  /\ lastAcquire = [ok |-> TRUE, hit |-> FALSE, conn |-> 1, created |-> 1, attempts |-> 1,
                    cacheBefore |-> 0, cacheAfter |-> 1, afterClose |-> FALSE,
                    closedHandle |-> 0]
  /\ closed = NotClosed
  /\ server = NoServer
  /\ call = NoCall
  /\ \/ /\ csvCache = NoCsv
        /\ \E q \in {<<"S","E","L","E","C","T"," ","*"," ","F","R","O","M"," ","t">>},
              o \in SqlReplies \cup {Rejected(e) : e \in QueryErrors} :
             inv = [i \in Inv |-> IF i = 1 THEN Suspended("sql", q, <<>>, NoConfig, 0, o)
                                  ELSE Idle]
     \/ /\ csvCache = CacheSet(NoCsv, config.embeddingCsvPath, "shipped")
        /\ \E t \in {<<"d","o","c","s">>, <<"n","e","w","s">>}, tool \in {"sim", "hybrid"},
              o \in SearchReplies \cup {Rejected(e) : e \in QueryErrors} :
             inv = [i \in Inv |->
                      IF i = 1
                      THEN Suspended(tool, <<>>, t, getEmbeddingConfig(t, TRUE).cfg,
                                     IF tool = "sim" THEN 1 ELSE 2, o)
                      ELSE Idle]

InitReply == Init \/ InitSuspended

SpecReply == InitReply /\ [][Next]_vars

\* ------------------------------------------- the remote call that does not answer
\* `await conn.query(...)` (kdbx-table-analysis.ts 148, tools/index.ts 85 and
\* 146) resumes the implementation when the promise settles and not before.
\* Neither the implementations nor KDBConnectionImpl start a timer: config.timeout
\* is loaded (settings, line 58) and read nowhere. SpecPending starts as Spec
\* does, or with one invocation suspended at that await on a promise that has
\* not settled; the remote side may answer later (Answer) and need not. The
\* event loop runs every continuation whose promise has settled, and a handler
\* that has finished returns: these steps are weakly fair. Tool calls and the
\* remote answer are the environment's and are not.
Pending == [NoOut EXCEPT !.kind = "pending"]

PendingAnswers == {SqlReply(1, 1), SearchReply("rows", <<>>), Rejected(Err(<<"t","i","m","e","o","u","t">>))}

InitPending ==
  /\ config \in {c \in Configs : c.retry + 1 >= 1}
  /\ cachedConnection = 1
  /\ connected = [c \in Conns |-> FALSE]
  /\ nextConn = 1
  /\ lastAcquire = [ok |-> TRUE, hit |-> FALSE, conn |-> 1, created |-> 1, attempts |-> 1,
                    cacheBefore |-> 0, cacheAfter |-> 1, afterClose |-> FALSE,
                    closedHandle |-> 0]
  /\ closed = NotClosed
  /\ server = NoServer
  /\ call = NoCall
  /\ \/ /\ csvCache = NoCsv
        /\ inv = [i \in Inv |->
                    IF i = 1
                    THEN Suspended("sql", <<"S","E","L","E","C","T"," ","*"," ","F","R","O","M"," ","t">>, <<>>, NoConfig, 0, Pending)
                    ELSE Idle]
     \/ /\ csvCache = CacheSet(NoCsv, config.embeddingCsvPath, "shipped")
        /\ \E tool \in {"sim", "hybrid"} :
             inv = [i \in Inv |->
                      IF i = 1
                      THEN Suspended(tool, <<>>, <<"d","o","c","s">>, getEmbeddingConfig(<<"d","o","c","s">>, TRUE).cfg,
                                     IF tool = "sim" THEN 1 ELSE 2, Pending)
                      ELSE Idle]

\* The remote side answers a call that is still waiting
Answer(i) ==
  /\ inv[i].pc = "awaitQuery" /\ inv[i].out.kind = "pending"
  /\ \E o \in PendingAnswers :
       /\ (o.kind = "value") => (o.shape = "record") = (inv[i].tool = "sql")
       /\ inv' = [inv EXCEPT ![i].out = o]
  /\ UNCHANGED <<config, server, call, cachedConnection, connected, nextConn, csvCache, lastAcquire, closed>>

NextPending ==
  \/ Next
  \/ \E i \in Inv : Answer(i)

EventLoop ==
  \A i \in Inv :
    /\ WF_vars(SqlAfterConnect(i))
    /\ WF_vars(SqlAfterQuery(i))
    /\ WF_vars(SimAfterDense(i))
    /\ WF_vars(HybridAfterDense(i))
    /\ WF_vars(HybridAfterSparse(i))
    /\ WF_vars(SearchAfterConnect(i))
    /\ WF_vars(SearchAfterQuery(i))
    /\ WF_vars(Return(i))

SpecPending == (Init \/ InitPending) /\ [][NextPending]_vars /\ EventLoop

\* ------------------------------------------------- the helpers called alone
\* getEmbeddingConfig and removeVectorColumns are exported functions: here a
\* caller applies them to inputs of its choice, removeVectorColumns a second
\* time to its own output.
StripInputs ==
  { <<>>,
    <<SearchRow(1)>>,
    <<SearchRow(1), SearchRow(2)>>,
    << <<Cell(<<"i","d">>, "num", 1), Cell(<<"t","e","x","t">>, "str", 1)>> >>,
    << <<Cell(<<"v","e","c">>, "vec", 1)>>, <<Cell(<<"s","v","e","c">>, "vec", 2), Cell(<<"i","d">>, "num", 2)>> >> }

\* getEmbeddingConfig(table, config) is called; what it throws reaches the caller
ResolveConfig(i, table) ==
  /\ inv[i].pc = "idle"
  /\ \E fileOk \in BOOLEAN :
       LET g == getEmbeddingConfig(table, fileOk) IN
       /\ csvCache' = g.cache
       /\ inv' = [inv EXCEPT ![i] =
            [Idle EXCEPT !.tool = "config", !.pc = "done", !.table = table,
                         !.cfg = g.cfg, !.threw = g.threw, !.caught = g.err]]
  /\ UNCHANGED <<config, server, call, cachedConnection, connected, nextConn, lastAcquire, closed>>

\* removeVectorColumns(data, table, config, logger) is called, and called again
\* on the rows it returned, with the file as it was at the first call.
StripVectorColumns(i, table, data) ==
  /\ inv[i].pc = "idle"
  /\ \E fileOk \in BOOLEAN :
       LET first == removeVectorColumns(data, table, fileOk)
           cache == getCsvData(fileOk).cache
           again == fileOk \/ config.embeddingCsvPath \in DOMAIN cache
       IN  /\ csvCache' = cache
           /\ inv' = [inv EXCEPT ![i] =
                [Idle EXCEPT !.tool = "strip", !.pc = "done", !.table = table,
                             !.input = data,
                             !.caught = getEmbeddingConfig(table, fileOk).err,
                             !.got = SearchReply("rows", InputAfterStrip(data, table, fileOk)),
                             !.out = SearchReply("rows", first),
                             !.res = Result([records |->
                                       removeVectorColumns(first, table, again)])]]
  /\ UNCHANGED <<config, server, call, cachedConnection, connected, nextConn, lastAcquire, closed>>

NextHelpers ==
  \/ \E i \in Inv, t \in Tables : ResolveConfig(i, t)
  \/ \E i \in Inv, t \in Tables, d \in StripInputs : StripVectorColumns(i, t, d)
  \/ \E i \in Inv : Return(i)

SpecHelpers == Init /\ [][NextHelpers]_vars

\* --------------------------------------- concurrent callers of getKDBConnection
\* Several run-sql-query invocations in flight at once: each runs from one
\* await to the next without interruption, and they interleave at the awaits.
Callers == 1..NumCallers

InitCallers ==
  /\ config \in Configs
  /\ cachedConnection = 0
  /\ connected = [c \in Conns |-> FALSE]
  /\ nextConn = 0
  /\ csvCache = NoCsv
  /\ inv = [i \in Callers |-> Idle]
  /\ lastAcquire = NoAcquire
  /\ closed = NotClosed
  /\ server = NoServer
  /\ call = NoCall

NextCallers ==
  \/ \E i \in Callers, q \in Queries : RunSqlQuery(i, q)
  \/ \E i \in Callers : SqlAfterConnect(i)
  \/ \E i \in Callers : SqlAfterQuery(i)
  \/ \E i \in Callers : Return(i)
  \/ Cleanup

SpecCallers == InitCallers /\ [][NextCallers]_vars

\* ------------------------------------------------------------- the startup
\* A process about to construct its server
Fresh(transport, warning) ==
  [NoServer EXCEPT !.pc = "new", !.transport = transport, !.warning = warning]

\* The replies of the database to the queries of checkKDBConnection
StartupReplies ==
  {Resolved(sh) : sh \in {"true", "false", "string"}} \cup {Rejected(e) : e \in QueryErrors}

\* run() suspended at an await of checkKDBConnection on connection 1, with the
\* checks passed on the way there
AtAwait(transport, warning, pc, kdbType, o) ==
  [Fresh(transport, warning) EXCEPT
     !.pc = pc, !.out = o, !.conn = 1, !.kdbType = kdbType,
     !.registeredTools = registerTools(FALSE),
     !.checks = CASE pc \in {"awaitVersion", "awaitVersionK"} -> <<"port">>
                  [] pc = "awaitSql" -> <<"port", "db">>
                  [] OTHER -> <<"port", "db", "sql">>]

InitStartup ==
  /\ csvCache = NoCsv
  /\ inv = [i \in Inv |-> Idle]
  /\ connected = [c \in Conns |-> FALSE]
  /\ closed = NotClosed
  /\ call = NoCall
  /\ \/ /\ config \in Configs
        /\ cachedConnection = 0
        /\ nextConn = 0
        /\ lastAcquire = NoAcquire
        /\ \E t \in Transports, w \in BOOLEAN : server = Fresh(t, w)
     \/ /\ config \in {c \in Configs : c.retry + 1 >= 1}
        /\ cachedConnection = 1
        /\ nextConn = 1
        /\ lastAcquire = [ok |-> TRUE, hit |-> FALSE, conn |-> 1, created |-> 1,
                          attempts |-> 1, cacheBefore |-> 0, cacheAfter |-> 1,
                          afterClose |-> FALSE, closedHandle |-> 0]
        /\ \E t \in Transports, w \in BOOLEAN, o \in StartupReplies :
             \/ \E pc \in {"awaitVersion", "awaitVersionK"} :
                  server = AtAwait(t, w, pc, "none", o)
             \/ \E pc \in {"awaitSql", "awaitAi"}, k \in {"KDB-X", "KDB+"} :
                  server = AtAwait(t, w, pc, k, o)

NextStartup ==
  \/ Construct
  \/ Run
  \/ AfterPort
  \/ AfterConn
  \/ AfterVersion
  \/ AfterVersionK
  \/ AfterSql
  \/ AfterAi
  \/ AfterTransport

SpecStartup == InitStartup /\ [][NextStartup]_vars

\* ------------------------------------- getKDBConnection attempt by attempt
\* The same function as ConnectLoop, cut at its await (the backoff sleep of
\* line 79), with the try body of an attempt either completing, as it does in
\* this build, or throwing, as it can once the call of conn.connect() of
\* line 70 is in place. `call` is the one call in progress:
\*   attempt    the loop variable
\*   conn       the object constructed at line 63
\*   lastError  the local of line 66
\*   failed     attempts whose body threw (history)
\*   waits      the setTimeout delays so far, each with the attempt it followed (history)
\*   out        the settled promise of the call

BackoffDelay_Exponential(attempt) == 1000 * 2 ^ (attempt - 1)

\* Line 79: the delay handed to setTimeout after failed attempt `attempt`
BackoffDelay(attempt) == 1000 * attempt

\* Errors a connect can fail with (server.ts, lines 240 and 246, looks for the first two)
ConnectErrors ==
  {Err(<<"C","o","n","n","e","c","t","i","o","n"," ","r","e","f","u","s","e","d">>), Err(<<"i","n","v","a","l","i","d"," ","u","s","e","r","n","a","m","e","/","p","a","s","s","w","o","r","d">>), Err(<<"t","i","m","e","o","u","t">>)}

\* Lines 51-67: entry, cache test, construction, first loop test
CallGetKDBConnection ==
  /\ call.pc = "none"
  /\ CanAcquire
  /\ IF CacheHit
     THEN /\ call' = [NoCall EXCEPT !.pc = "settled", !.conn = cachedConnection,
                                    !.out = ResolvedConn(cachedConnection)]
          /\ UNCHANGED nextConn
     ELSE /\ nextConn' = NewConnection
          /\ call' = IF 1 <= config.retry + 1
                     THEN [NoCall EXCEPT !.pc = "attempt", !.conn = NewConnection,
                                         !.attempt = 1]
                     ELSE [NoCall EXCEPT !.pc = "settled", !.conn = NewConnection,
                                         !.attempt = 1,
                                         !.out = Rejected(Err(MsgFailedToConnect))]
  /\ UNCHANGED <<config, server, cachedConnection, connected, csvCache, inv,
                 lastAcquire, closed>>

\* Lines 68-73: the body of the try completes
AttemptReturns ==
  /\ call.pc = "attempt"
  /\ AttemptBody(call.conn, call.attempt).ok
  /\ cachedConnection' = call.conn
  /\ call' = [call EXCEPT !.pc = "settled", !.out = ResolvedConn(call.conn)]
  /\ UNCHANGED <<config, server, connected, nextConn, csvCache, inv, lastAcquire, closed>>

\* Lines 74-85: the body of the try threw e. The catch keeps the error and
\* sleeps if another attempt is left; otherwise the loop ends and the error is
\* thrown.
AttemptThrows(e) ==
  /\ call.pc = "attempt"
  /\ call' = IF call.attempt < config.retry + 1
             THEN [call EXCEPT !.pc = "backoff", !.lastError = e, !.failed = @ + 1,
                     !.waits = Append(@, [after |-> call.attempt,
                                          ms |-> BackoffDelay(call.attempt)])]
             ELSE [call EXCEPT !.pc = "settled", !.lastError = e, !.failed = @ + 1,
                     !.attempt = @ + 1, !.out = Rejected(e)]
  /\ UNCHANGED <<config, server, cachedConnection, connected, nextConn, csvCache, inv,
                 lastAcquire, closed>>

\* Lines 79-82 and 67: the timer has fired; attempt++ and the loop test
AfterBackoff ==
  /\ call.pc = "backoff"
  /\ call' = IF call.attempt + 1 <= config.retry + 1
             THEN [call EXCEPT !.pc = "attempt", !.attempt = @ + 1]
             ELSE [call EXCEPT !.pc = "settled", !.attempt = @ + 1,
                               !.out = Rejected(call.lastError)]
  /\ UNCHANGED <<config, server, cachedConnection, connected, nextConn, csvCache, inv,
                 lastAcquire, closed>>

\* The caller has consumed the promise
CallDone ==
  /\ call.pc = "settled"
  /\ call' = NoCall
  /\ UNCHANGED <<config, server, cachedConnection, connected, nextConn, csvCache, inv,
                 lastAcquire, closed>>

\* retry as the command line can set it (cli.ts line 58); README uses up to 4
ConnectConfigs == [retry : RetryValues \cup {3}, embeddingCsvPath : {"embeddings.csv"}]

InitConnect ==
  /\ config \in ConnectConfigs
  /\ cachedConnection = 0
  /\ connected = [c \in Conns |-> FALSE]
  /\ nextConn = 0
  /\ csvCache = NoCsv
  /\ inv = [i \in Inv |-> Idle]
  /\ lastAcquire = NoAcquire
  /\ closed = NotClosed
  /\ server = NoServer
  /\ call = NoCall

NextConnect ==
  \/ CallGetKDBConnection
  \/ AttemptReturns
  \/ \E e \in ConnectErrors : AttemptThrows(e)
  \/ AfterBackoff
  \/ CallDone

SpecConnect == InitConnect /\ [][NextConnect]_vars

\* --------------------------------------------------- the CSV cache alone
\* The paths getCsvData is called with: the configured one and another
CsvPaths == {"embeddings.csv", "other.csv"}

\* getCsvData(csvPath) is called; the file may hold either content, or be
\* unreadable, each time it is read.
LoadCsv(i, csvPath) ==
  /\ inv[i].pc = "idle"
  /\ \E fileOk \in BOOLEAN, content \in CsvContents :
       LET g == getCsvDataAt(csvPath, fileOk, content) IN
       /\ csvCache' = g.cache
       /\ inv' = [inv EXCEPT ![i] =
            [Idle EXCEPT !.tool = "csv", !.pc = "done", !.path = csvPath,
                         !.read = g.read, !.threw = g.threw, !.caught = g.err,
                         !.input = g.rows]]
  /\ UNCHANGED <<config, server, call, cachedConnection, connected, nextConn, lastAcquire, closed>>

NextCsv ==
  \/ \E i \in Inv, p \in CsvPaths : LoadCsv(i, p)
  \/ \E i \in Inv, t \in Tables : ResolveConfig(i, t)
  \/ \E i \in Inv : Return(i)

SpecCsv == Init /\ [][NextCsv]_vars

\* ------------------------------------------------------------------ claims
\* The denylist condition, stated on the text itself
SelectPrefixed(q) == startsWith(trim(toUpperCase(q)), <<"S","E","L","E","C","T">>)

HasKeyword(q) ==
  \E w \in {<<"I","N","S","E","R","T">>, <<"D","R","O","P">>, <<"D","E","L","E","T","E">>, <<"T","R","U","N","C","A","T","E">>, <<"A","L","T","E","R">>, <<"C","R","E","A","T","E">>} :
    includes(trim(toUpperCase(q)), w)

Min(a, b) == IF a <= b THEN a ELSE b

\* C1: a query that is not SELECT-prefixed and contains a denylisted keyword
\* ends run-sql-query with status=error, and that invocation calls neither
\* getKDBConnection nor conn.query.
C1_GateRejects ==
  \A i \in Inv :
    (inv[i].tool = "sql" /\ ~SelectPrefixed(inv[i].query) /\ HasKeyword(inv[i].query))
      => /\ inv[i].pc = "done"
         /\ ~inv[i].threw
         /\ inv[i].res.status = "error"
         /\ inv[i].nAcq = 0
         /\ inv[i].nRemote = 0

C1_Witness ==
  \E i \in Inv :
    /\ inv[i].tool = "sql" /\ inv[i].pc = "done"
    /\ ~SelectPrefixed(inv[i].query) /\ HasKeyword(inv[i].query)
    /\ inv[i].res.status = "error"

\* C2: run-sql-query calls conn.query only for SELECT-prefixed texts; a
\* statement such as UPDATE or a bare q expression never gets that far.
C2_OnlySelectReachesRemote ==
  \A i \in Inv :
    (inv[i].tool = "sql" /\ inv[i].nRemote > 0) => SelectPrefixed(inv[i].query)

C2_Witness ==
  \E i \in Inv :
    /\ inv[i].tool = "sql" /\ inv[i].nRemote > 0
    /\ inv[i].query = <<"U","P","D","A","T","E"," ","t"," ","S","E","T"," ","a"," ","="," ","1">>

\* C3: a SELECT-prefixed query is not rejected by the gate, whatever keywords
\* it contains: the invocation calls getKDBConnection and, unless that call
\* fails (which takes a configuration allowing no attempt), then conn.query.
C3_SelectProceeds ==
  \A i \in Inv :
    (inv[i].tool = "sql" /\ SelectPrefixed(inv[i].query))
      => /\ inv[i].nAcq = 1
         /\ inv[i].pc \in {"awaitConn", "awaitQuery", "done"}
         /\ inv[i].pc = "awaitQuery" => inv[i].nRemote = 1
         /\ inv[i].pc = "done"
              => \/ inv[i].nRemote = 1
                 \/ /\ config.retry + 1 < 1
                    /\ inv[i].nRemote = 0
                    /\ inv[i].caught = Err(MsgFailedToConnect)

C3_Witness ==
  \E i \in Inv :
    /\ inv[i].tool = "sql" /\ inv[i].pc = "done"
    /\ SelectPrefixed(inv[i].query) /\ HasKeyword(inv[i].query)
    /\ inv[i].nAcq = 1 /\ inv[i].nRemote = 1

\* The invocation in slot i has returned after conn.query resolved with a result
SqlAnswered(i) ==
  /\ inv[i].tool = "sql" /\ inv[i].pc = "done"
  /\ inv[i].got.kind = "value" /\ inv[i].got.shape = "record"

C5_NoRows ==
  \A i \in Inv :
    (SqlAnswered(i) /\ inv[i].got.rowCount = 0)
      => /\ inv[i].res.keys = {"status", "data", "message"}
         /\ inv[i].res.status = "success"
         /\ inv[i].res.data = <<>>
         /\ inv[i].res.message = <<"N","o"," ","r","o","w","s"," ","r","e","t","u","r","n","e","d">>

C5_Witness == \E i \in Inv : SqlAnswered(i) /\ inv[i].got.rowCount = 0

\* The invocation in slot i has ended after one of its steps failed
Failed(i) == inv[i].pc = "done" /\ inv[i].caught # NoErr

MarkerError(i) == inv[i].tool = "sql" /\ includes(inv[i].caught.message, <<".","s",".","e">>)

C7_Classification ==
  \A i \in Inv :
    (inv[i].tool = "sql" /\ Failed(i))
      => IF includes(inv[i].caught.message, <<".","s",".","e">>)
         THEN /\ inv[i].res.keys = {"status", "error_type", "message", "technical_details"}
              /\ inv[i].res.status = "error"
              /\ inv[i].res.error_type = "sql_interface_not_loaded"
              /\ inv[i].res.message = MsgSqlNotLoaded
              /\ inv[i].res.technical_details = ErrorToString(inv[i].caught)
         ELSE /\ inv[i].res.keys = {"status", "message"}
              /\ inv[i].res.status = "error"
              /\ inv[i].res.message = ErrorToString(inv[i].caught)

C7_Witness ==
  \E i \in Inv :
    /\ inv[i].tool = "sql" /\ Failed(i)
    /\ includes(inv[i].caught.message, <<".","s",".","e">>)
    /\ inv[i].res.error_type = "sql_interface_not_loaded"

\* A getKDBConnection call has completed
Acquired == lastAcquire.hit \/ lastAcquire.created # 0

\* The number of the first attempt whose body succeeds on object c, 0 if none does
FirstSuccess(c) ==
  LET good == {k \in 1..(config.retry + 1) : AttemptBody(c, k).ok}
  IN  IF good = {} THEN 0 ELSE CHOOSE k \in good : \A h \in good : k <= h

\* C8: one getKDBConnection call makes at most retry + 1 attempts; it fails
\* only after exactly retry + 1 failed attempts; the first attempt that
\* succeeds is the last one made, and its connection is cached and returned.
C8_BoundedAttempts ==
  Acquired
    => /\ lastAcquire.attempts <= config.retry + 1
       /\ ~lastAcquire.ok
            => (lastAcquire.attempts = config.retry + 1 /\ FirstSuccess(lastAcquire.created) = 0)
       /\ (lastAcquire.ok /\ ~lastAcquire.hit)
            => /\ lastAcquire.attempts = FirstSuccess(lastAcquire.created)
               /\ lastAcquire.conn = lastAcquire.created
               /\ lastAcquire.cacheAfter = lastAcquire.conn

C8_Witness ==
  /\ Acquired /\ lastAcquire.ok /\ ~lastAcquire.hit
  /\ config.retry >= 1
  /\ lastAcquire.attempts = 1
  /\ cachedConnection = lastAcquire.conn

\* C9: when a connection is cached at the time getKDBConnection is called (an
\* earlier call succeeded and no close happened since), the call returns that
\* object at once: no new object, no attempt.
C9_CachedIsReturned ==
  (Acquired /\ lastAcquire.cacheBefore # 0)
    => /\ lastAcquire.hit
       /\ lastAcquire.conn = lastAcquire.cacheBefore
       /\ lastAcquire.created = 0
       /\ lastAcquire.attempts = 0

C11_CloseIdempotent ==
  [][ /\ ENABLED cleanupKDBConnection
      /\ cleanupKDBConnection
           => /\ cachedConnection' = 0
              /\ cachedConnection # 0 => ~connected'[cachedConnection]
              /\ \A c \in Conns : c # cachedConnection => connected'[c] = connected[c]
              /\ cachedConnection = 0
                   => UNCHANGED <<config, server, call, cachedConnection, connected, nextConn,
                                  csvCache, inv, lastAcquire>>
    ]_vars

C11_Witness ==
  /\ closed.called /\ closed.handle # 0
  /\ cachedConnection = 0
  /\ ~connected[closed.handle]

\* No invocation is between its getKDBConnection call and the resumption
AcquiresReturned == \A i \in DOMAIN inv : inv[i].pc # "awaitConn"

\* C12: with concurrent invocations calling getKDBConnection, once all calls
\* have returned exactly one connection is cached (the last one handed out),
\* and no handle is leaked: a handle leaves the cache only by being closed.
C12_NoLeakedHandle ==
  [][ /\ (AcquiresReturned /\ lastAcquire.ok /\ ~closed.called)
           => (cachedConnection # 0 /\ cachedConnection = lastAcquire.conn)
      /\ (cachedConnection # 0 /\ cachedConnection' # cachedConnection)
           => (closed'.called /\ closed'.handle = cachedConnection)
    ]_vars

C12_Witness ==
  /\ \A i \in DOMAIN inv : inv[i].tool = "sql" /\ inv[i].pc = "awaitQuery"
  /\ \E i, j \in DOMAIN inv : inv[i].conn # 0 /\ inv[j].conn # 0 /\ inv[i].conn # inv[j].conn
  /\ cachedConnection = lastAcquire.conn

\* The invocation's configuration lookup could not read the embeddings CSV
ReadFailed(i) == startsWith(inv[i].caught.message, <<"F","a","i","l","e","d"," ","t","o"," ","r","e","a","d"," ","e","m","b","e","d","d","i","n","g","s"," ","C","S","V">>)

\* The rows of the backing table whose table column is t
MatchingRows(t) == {k \in 1..Len(EmbeddingCsv) : EmbeddingCsv[k].table = t}

\* C13: getEmbeddingConfig for a table with exactly one matching row returns
\* that row's seven fields one to one (an empty field as null); with no
\* matching row or with several it throws and returns no configuration.
C13_ResolveConfig ==
  \A i \in Inv :
    (inv[i].tool = "config" /\ inv[i].pc = "done" /\ ~ReadFailed(i))
      => IF Cardinality(MatchingRows(inv[i].table)) = 1
         THEN LET row == EmbeddingCsv[CHOOSE k \in MatchingRows(inv[i].table) : TRUE] IN
              /\ ~inv[i].threw
              /\ inv[i].cfg.embeddingColumn = row.embedding_column
              /\ inv[i].cfg.embeddingProvider = row.embedding_provider
              /\ inv[i].cfg.embeddingModel = row.embedding_model
              /\ inv[i].cfg.sparseEmbeddingColumn = row.sparse_embedding_column
              /\ inv[i].cfg.sparseIndexName = row.sparse_index_name
              /\ inv[i].cfg.sparseTokenizerProvider = row.sparse_tokenizer_provider
              /\ inv[i].cfg.sparseTokenizerModel = row.sparse_tokenizer_model
         ELSE /\ inv[i].threw
              /\ inv[i].cfg = NoConfig
              /\ inv[i].caught.message
                   = IF MatchingRows(inv[i].table) = {}
                     THEN <<"N","o"," ","c","o","n","f","i","g","u","r","a","t","i","o","n"," ","f","o","u","n","d"," ","f","o","r"," ","t","a","b","l","e","=","'">> \o inv[i].table \o <<"'">>
                     ELSE <<"M","u","l","t","i","p","l","e"," ","c","o","n","f","i","g","u","r","a","t","i","o","n","s"," ","f","o","u","n","d"," ","f","o","r"," ","t","a","b","l","e","=","'">> \o inv[i].table
                            \o <<"'","."," ","P","l","e","a","s","e"," ","e","n","s","u","r","e"," ","e","a","c","h"," ","t","a","b","l","e"," ","h","a","s"," ","o","n","l","y"," ","o","n","e"," ","c","o","n","f","i","g","u","r","a","t","i","o","n"," ","r","o","w",".">>

C13_Witness ==
  \E i \in Inv :
    /\ inv[i].tool = "config" /\ inv[i].pc = "done"
    /\ Cardinality(MatchingRows(inv[i].table)) = 2
    /\ inv[i].threw /\ inv[i].cfg = NoConfig

\* C17: removeVectorColumns is idempotent: applied to the rows it returned,
\* for the same table and configuration, it returns those rows unchanged.
C17_StripIdempotent ==
  \A i \in Inv :
    (inv[i].tool = "strip" /\ inv[i].pc = "done")
      => inv[i].res.records = inv[i].out.data

C17_Witness ==
  \E i \in Inv :
    /\ inv[i].tool = "strip" /\ inv[i].pc = "done"
    /\ inv[i].out.data # inv[i].got.data
    /\ \E k \in 1..Len(inv[i].got.data) : Len(inv[i].out.data[k]) + 2 = Len(inv[i].got.data[k])
    /\ inv[i].res.records = inv[i].out.data

\* The one row of the backing table for t, for a table that has exactly one
TheRow(t) == EmbeddingCsv[CHOOSE k \in MatchingRows(t) : TRUE]

\* C14: hybrid search on a table whose configuration has no sparseIndexName
\* returns {status: error, message: "... does not have sparse index", table}
\* and calls no embedding provider, no getKDBConnection and no conn.query,
\* whether or not embeddingProvider and embeddingModel are configured.
C14_NoSparseIndex ==
  \A i \in Inv :
    (inv[i].tool = "hybrid" /\ Cardinality(MatchingRows(inv[i].table)) = 1
       /\ TheRow(inv[i].table).sparse_index_name = <<>> /\ ~ReadFailed(i))
      => /\ inv[i].pc = "done"
         /\ ~inv[i].threw
         /\ inv[i].res.keys = {"status", "message", "table"}
         /\ inv[i].res.status = "error"
         /\ inv[i].res.message = <<"T","h","e"," ","r","e","q","u","e","s","t","e","d"," ","t","a","b","l","e"," ","d","o","e","s"," ","n","o","t"," ","h","a","v","e"," ","s","p","a","r","s","e"," ","i","n","d","e","x">>
         /\ inv[i].res.table = inv[i].table
         /\ inv[i].nEmbed = 0 /\ inv[i].nAcq = 0 /\ inv[i].nRemote = 0

C14_Witness ==
  \E i \in Inv :
    /\ inv[i].tool = "hybrid" /\ inv[i].pc = "done" /\ inv[i].table = <<"n","o","m","o","d","e","l">>
    /\ inv[i].res.status = "error" /\ inv[i].nEmbed = 0

\* C16: similarity search on a table whose configuration misses any of
\* embeddingColumn, embeddingProvider, embeddingModel returns status error
\* with the table name and the message that the table has no embedding
\* configuration, and calls no embedding provider, no getKDBConnection and
\* no conn.query.
C16_NoEmbeddingConfiguration ==
  \A i \in Inv :
    (inv[i].tool = "sim" /\ Cardinality(MatchingRows(inv[i].table)) = 1
       /\ (\/ TheRow(inv[i].table).embedding_column = <<>>
           \/ TheRow(inv[i].table).embedding_provider = <<>>
           \/ TheRow(inv[i].table).embedding_model = <<>>)
       /\ ~ReadFailed(i))
      => /\ inv[i].pc = "done"
         /\ ~inv[i].threw
         /\ inv[i].res.status = "error"
         /\ inv[i].res.table = inv[i].table
         /\ inv[i].res.message
              = <<"E","r","r","o","r",":"," ","T","a","b","l","e"," ">> \o inv[i].table \o <<" ","d","o","e","s"," ","n","o","t"," ","h","a","v","e"," ","e","m","b","e","d","d","i","n","g"," ","c","o","n","f","i","g","u","r","a","t","i","o","n">>
         /\ inv[i].nEmbed = 0 /\ inv[i].nAcq = 0 /\ inv[i].nRemote = 0

C16_Witness ==
  \E i \in Inv :
    /\ inv[i].tool = "sim" /\ inv[i].pc = "done" /\ inv[i].table = <<"n","o","m","o","d","e","l">>
    /\ inv[i].res.status = "error" /\ inv[i].nEmbed = 0 /\ inv[i].nAcq = 0

\* The hybrid invocation in slot i has returned after conn.query resolved
HybridAnswered(i) ==
  inv[i].tool = "hybrid" /\ inv[i].pc = "done" /\ inv[i].got.kind = "value"

\* C15: when conn.query of hybrid search resolves with an empty result set, or
\* with no result, the invocation returns {status: success, table,
\* recordsCount: 0, records: [], message: "No results found ..."}.
C15_EmptyHybridResult ==
  \A i \in Inv :
    (HybridAnswered(i) /\ inv[i].nRemote = 1
       /\ (inv[i].got.shape = "null" \/ Len(inv[i].got.data) = 0))
      => /\ ~inv[i].threw
         /\ inv[i].res.keys = {"status", "table", "recordsCount", "records", "message"}
         /\ inv[i].res.status = "success"
         /\ inv[i].res.table = inv[i].table
         /\ inv[i].res.recordsCount = 0
         /\ inv[i].res.records = <<>>
         /\ startsWith(inv[i].res.message, <<"N","o"," ","r","e","s","u","l","t","s"," ","f","o","u","n","d">>)

C15_Witness ==
  \E i \in Inv :
    /\ HybridAnswered(i) /\ inv[i].got.shape = "rows" /\ Len(inv[i].got.data) = 0
    /\ inv[i].res.status = "success" /\ inv[i].res.recordsCount = 0

\* The startup checks in the order run() makes them
StartupChecks == <<"port", "db", "sql">>

\* A startup check is failing in this state: the port check, the connection,
\* the version fallback or the SQL-interface check has settled with an error,
\* or the SQL interface is reported as not loaded.
CheckFails ==
  \/ server.pc \in {"awaitPort", "awaitConn", "awaitVersionK", "awaitSql"}
       /\ server.out.kind = "error"
  \/ server.pc = "awaitSql" /\ server.out.kind = "value" /\ ~Truthy(server.out)

\* C18: the transport is connected only after the port check, the database
\* reachability check and the SQL-interface check have succeeded, in that
\* order; a step that consumes a failed check ends the process with exit
\* status 1, and an exited process never has its transport connected.
C18_StartupOrder ==
  [][ /\ server'.checks = SubSeq(StartupChecks, 1, Len(server'.checks))
      /\ Len(server'.checks) \in {Len(server.checks), Len(server.checks) + 1}
      /\ (server'.pc \in {"awaitTransport", "serving"} \/ server'.transportConnected)
           => server'.checks = StartupChecks
      /\ CheckFails => (server'.exited /\ server'.exitCode = 1)
      /\ server'.exited => (server'.exitCode # 0 /\ ~server'.transportConnected)
    ]_vars

C18_Witness ==
  /\ server.pc = "serving"
  /\ server.transportConnected
  /\ server.checks = StartupChecks
  /\ ~server.exited

TargetHostPort == <<"1","2","7",".","0",".","0",".","1",":","5","0","0","0">>

\* A getKDBConnection call has used up its retry + 1 attempts, all failed
Exhausted ==
  /\ call.pc = "settled"
  /\ call.out.kind = "error"
  /\ config.retry + 1 >= 1
  /\ call.failed = config.retry + 1

C22_AcquiredIsConnected ==
  \A i \in Inv :
    /\ (inv[i].pc = "awaitConn" /\ inv[i].out.kind = "value" /\ ~closed.called)
         => /\ isConnected(inv[i].out.conn)
            /\ cachedConnection # 0 => isConnected(cachedConnection)
    /\ (inv[i].pc = "awaitQuery" /\ ~closed.called)
         => inv[i].out # Rejected(Err(MsgNotConnected))

C22_Witness ==
  \E i \in Inv :
    /\ inv[i].tool = "sql" /\ inv[i].pc = "awaitQuery"
    /\ ~closed.called
    /\ lastAcquire.ok /\ lastAcquire.conn = inv[i].conn
    /\ cachedConnection = inv[i].conn
    /\ ~isConnected(inv[i].conn)
    /\ inv[i].out = Rejected(Err(MsgNotConnected))

\* C23: the remote call of run-sql-query carries the q function together with
\* the SQL text the caller submitted and the row cap of 1000.
C23_RemoteCallBound ==
  \A i \in Inv :
    (inv[i].tool = "sql" /\ inv[i].nRemote >= 1)
      => /\ Len(inv[i].sent) = 3
         /\ inv[i].sent[1] = SqlLambda
         /\ inv[i].sent[2] = inv[i].query
         /\ inv[i].sent[3] = 1000

C23_Witness ==
  \E i \in Inv :
    /\ inv[i].tool = "sql" /\ inv[i].pc = "awaitQuery"
    /\ inv[i].query = <<"S","E","L","E","C","T"," ","*"," ","F","R","O","M"," ","t">>
    /\ inv[i].nRemote = 1
    /\ inv[i].sent = <<SqlLambda>>

\* C24: an invocation makes at most one getKDBConnection call and at most one
\* remote call; the step that consumes a failed remote call ends the
\* invocation with status error, makes no further remote call and touches
\* neither the cache nor the connections.
C24_NoQueryRetry ==
  [][ \A i \in Inv :
        /\ inv'[i].nRemote <= 1
        /\ inv'[i].nAcq <= 1
        /\ (inv[i].pc = "awaitQuery" /\ inv[i].out.kind = "error" /\ inv'[i] # inv[i])
             => /\ inv'[i].pc = "done"
                /\ inv'[i].res.status = "error"
                /\ inv'[i].nRemote = inv[i].nRemote
                /\ inv'[i].nAcq = inv[i].nAcq
                /\ UNCHANGED <<cachedConnection, nextConn, connected>>
    ]_vars

C24_Witness ==
  \E i \in Inv :
    /\ inv[i].pc = "done"
    /\ inv[i].tool = "hybrid"
    /\ inv[i].got.kind = "error"
    /\ inv[i].nAcq = 1 /\ inv[i].nRemote = 1
    /\ inv[i].res.status = "error"

\* C25: the remote call of similarity search carries the table name, the
\* configured embedding column, the query vector the provider returned, the
\* configured metric and the result count: the caller's n, or config.k when
\* n is absent.
C25_VectorSearchArguments ==
  \A i \in Inv :
    (inv[i].tool = "sim" /\ inv[i].nRemote >= 1)
      => /\ Len(inv[i].sent) = 2
         /\ inv[i].sent[1] = SimLambda
         /\ inv[i].sent[2] =
              [table |-> inv[i].table, vcol |-> inv[i].cfg.embeddingColumn,
               qvec |-> "embedding", metric |-> DefaultMetric,
               n |-> IF inv[i].n = Undefined THEN 5 ELSE inv[i].n]

C25_Witness ==
  \E i \in Inv :
    /\ inv[i].tool = "sim" /\ inv[i].pc = "awaitQuery"
    /\ inv[i].table = <<"d","o","c","s">>
    /\ inv[i].n = 3 /\ inv[i].k = 3
    /\ inv[i].denseWith = <<<<"o","p","e","n","a","i">>, <<"m","1">>>>
    /\ inv[i].sent = <<SimLambda>>

\* C26: hybrid search asks the sparse embedding of the configured
\* sparseTokenizerProvider and sparseTokenizerModel where they are set, of the
\* dense embeddingProvider where no sparse provider is set and of the dense
\* embeddingModel where no sparse model is set, each independently.
C26_SparseDefaults ==
  \A i \in Inv :
    (inv[i].tool = "hybrid" /\ inv[i].nEmbed = 2)
      => /\ inv[i].sparseWith[1] =
              IF inv[i].cfg.sparseTokenizerProvider # <<>>
              THEN inv[i].cfg.sparseTokenizerProvider
              ELSE inv[i].cfg.embeddingProvider
         /\ inv[i].sparseWith[2] =
              IF inv[i].cfg.sparseTokenizerModel # <<>>
              THEN inv[i].cfg.sparseTokenizerModel
              ELSE inv[i].cfg.embeddingModel
         /\ inv[i].denseWith = <<inv[i].cfg.embeddingProvider, inv[i].cfg.embeddingModel>>

C26_Witness ==
  \E i \in Inv :
    /\ inv[i].tool = "hybrid" /\ inv[i].pc = "awaitSparse"
    /\ inv[i].table = <<"m","i","x","p">>
    /\ inv[i].cfg.sparseTokenizerModel = <<>>
    /\ inv[i].sparseWith = <<<<"s","e","n","t","e","n","c","e","_","t","r","a","n","s","f","o","r","m","e","r","s">>, <<"m","1">>>>

\* C27: removeVectorColumns returns, row by row, the cells of the input
\* without the configured embedding column and sparse embedding column, the
\* other cells unchanged and in their order; it leaves the caller's rows as
\* they were; and when the configuration lookup fails (no row, several rows,
\* unreadable file) it returns the input rows.
C27_StripFrame ==
  \A i \in Inv :
    (inv[i].tool = "strip" /\ inv[i].pc = "done")
      => LET data == inv[i].input
             result == inv[i].out.data
             lookupFailed == Cardinality(MatchingRows(inv[i].table)) # 1 \/ ReadFailed(i)
             Configured(cell) ==
               cell.col \in {TheRow(inv[i].table).embedding_column,
                             TheRow(inv[i].table).sparse_embedding_column}
             Other(cell) == ~Configured(cell)
         IN  /\ inv[i].got.data = data
             /\ Len(result) = Len(data)
             /\ IF lookupFailed
                THEN result = data
                ELSE \A k \in 1..Len(data) : result[k] = SelectSeq(data[k], Other)

C27_Witness ==
  \E i \in Inv :
    /\ inv[i].tool = "strip" /\ inv[i].pc = "done"
    /\ inv[i].table = <<"d","o","c","s">>
    /\ inv[i].caught = NoErr
    /\ Len(inv[i].input) = 2
    /\ Len(inv[i].input[2]) = 2 /\ Len(inv[i].out.data[2]) = 1
    /\ inv[i].out.data[1] = <<>>
    /\ inv[i].got.data = inv[i].input

\* The docs row of the rows cached for a path
CachedDocsRow(p) ==
  LET rows == ParsedRows(csvCache[p])
  IN  rows[CHOOSE k \in 1..Len(rows) : rows[k].table = <<"d","o","c","s">>]

\* C28: a path once loaded stays cached with the rows of that load, whatever
\* is loaded for other paths; a getCsvData call for a cached path returns the
\* cached rows without reading the file, and so does a configuration lookup
\* for any table (it cannot fail on the file, and a lookup of docs answers
\* from the cached docs row).
C28_LoadedOncePerPath ==
  [][ /\ \A p \in DOMAIN csvCache :
           p \in DOMAIN csvCache' /\ csvCache'[p] = csvCache[p]
      /\ \A i \in Inv :
           (inv[i].pc = "idle" /\ inv'[i].tool = "csv" /\ inv'[i].path \in DOMAIN csvCache)
             => /\ ~inv'[i].read
                /\ ~inv'[i].threw
                /\ inv'[i].input = ParsedRows(csvCache[inv'[i].path])
      /\ \A i \in Inv :
           (inv[i].pc = "idle" /\ inv'[i].tool = "config"
              /\ config.embeddingCsvPath \in DOMAIN csvCache)
             => /\ ~startsWith(inv'[i].caught.message, <<"F","a","i","l","e","d"," ","t","o"," ","r","e","a","d"," ","e","m","b","e","d","d","i","n","g","s"," ","C","S","V">>)
                /\ inv'[i].table = <<"d","o","c","s">>
                     => inv'[i].cfg.embeddingColumn
                          = CachedDocsRow(config.embeddingCsvPath).embedding_column
    ]_vars

C28_Witness ==
  /\ DOMAIN csvCache = CsvPaths
  /\ csvCache["embeddings.csv"] = "edited"
  /\ csvCache["other.csv"] = "shipped"
  /\ \E i \in Inv :
       /\ inv[i].tool = "config" /\ inv[i].pc = "done"
       /\ inv[i].table = <<"d","o","c","s">>
       /\ inv[i].cfg.embeddingColumn = <<"e","m","b">>

C30_ReleasedAtExit ==
  server.exited =>
    /\ cachedConnection = 0
    /\ (server.conn # 0 => closed.called /\ closed.handle = server.conn)

\* The process has exited after acquiring its connection, which is still cached
\* and was never closed
C30_Witness ==
  /\ server.exited /\ server.exitCode = 1
  /\ server.conn # 0 /\ cachedConnection = server.conn
  /\ ~closed.called

====
